---- MODULE Spec2Model ----
(***************************************************************************)
(* ClimateHealthMapper ai-model: the training driver (train_model.py), the *)
(* feature pipeline (data_processor.py) and the serving layer              *)
(* (health_predictor.py) as state machines.                                *)
(*                                                                         *)
(*   SpecTrain : train_model's epoch loop with EarlyStopping               *)
(*   SpecProc  : the life cycle of one DataProcessor instance              *)
(*   SpecPersist : that life cycle with save and load                      *)
(*   SpecServe : start-up loading and the /predict handlers                *)
(***************************************************************************)
EXTENDS Integers, Sequences, FiniteSets, TLC

VARIABLES
    \* train_model.py
    tpc,             \* position of train_model: idle, the loop steps, done
    epoch,           \* the loop variable of `for epoch in range(num_epochs)`
    num_epochs,      \* argument of train_model
    val_loss,        \* validation loss of the current epoch
    tensors,         \* tensor storage: tensor id -> content
    early_stopping,  \* the EarlyStopping instance of this call
    scheduler,       \* the ReduceLROnPlateau instance of this call
    history,         \* the history list
    cv,              \* cross_validate: its position, n_folds, fold and fold_results
    \* data_processor.py
    proc,            \* the DataProcessor instance
    disk,            \* the pickle file written by save
    arg,             \* argument of the last DataProcessor call
    ret,             \* outcome of the last DataProcessor call
    \* health_predictor.py
    files,           \* data_processor.pkl and model.pt on disk
    svc,             \* the module globals model, processor, redis_client
    cache,           \* the Redis key space
    resp,            \* the response to the last request
    \* model.py
    net,             \* a HealthRiskPredictor instance
    checkpoint,      \* the file written by save_model
    mret             \* outcome of the last HealthRiskPredictor call

trainVars == <<tpc, epoch, num_epochs, val_loss, tensors, early_stopping, scheduler, history, cv>>
procVars == <<proc, disk, arg, ret>>
serveVars == <<files, svc, cache, resp>>
modelVars == <<net, checkpoint, mret>>
vars == <<trainVars, procVars, serveVars, modelVars>>

(***************************************************************************)
(* Bounds of the model.                                                    *)
(***************************************************************************)
MaxEpochs == 4
MaxPatience == 2
MaxLoss == 2
MaxFolds == 3
MaxRows == 1

Max(a, b) == IF a >= b THEN a ELSE b

\* A local variable assigned once: F applied to the value of v.
Bind(v, F(_)) == CHOOSE out \in {F(x) : x \in {v}} : TRUE

\* Optional values: None, or Some(x).
None == [some |-> FALSE, v |-> <<>>]
Some(x) == [some |-> TRUE, v |-> x]

(***************************************************************************)
(* train_model.py : EarlyStopping                                          *)
(***************************************************************************)

\* The tensors of the model: a parameter and a BatchNorm buffer.  The model
\* owns one storage cell per name for its whole life; optimizer.step() and
\* the BatchNorm forward pass write those cells in place.
ParamNames == {"input_layer.weight", "input_bn.running_mean"}
ModelTensor == [n \in ParamNames |-> IF n = "input_layer.weight" THEN 1 ELSE 2]
TensorIds == {ModelTensor[n] : n \in ParamNames}

\* model.state_dict(): an ordered dict name -> tensor; each value is the
\* detached parameter or buffer, which shares the model's storage.
state_dict == [n \in ParamNames |-> ModelTensor[n]]

\* dict.copy(): a new dict holding the same value objects.
dict_copy(d) == [n \in DOMAIN d |-> d[n]]

\* EarlyStopping.__init__
EarlyStoppingInit(patience, min_delta, mode) ==
    [patience |-> patience, min_delta |-> min_delta, mode |-> mode,
     counter |-> 0, best_score |-> None, early_stop |-> FALSE,
     best_model_state |-> None]

\* EarlyStopping._is_improvement
is_improvement(es, score) ==
    IF es.mode = "min"
    THEN score < es.best_score.v - es.min_delta
    ELSE score > es.best_score.v + es.min_delta

\* EarlyStopping.__call__ with `counter > patience` in place of `>=`.
EarlyStoppingCallOffByOne(es, score) ==
    IF ~es.best_score.some
    THEN [es EXCEPT !.best_score = Some(score),
                    !.best_model_state = Some(dict_copy(state_dict))]
    ELSE IF is_improvement(es, score)
    THEN [es EXCEPT !.best_score = Some(score),
                    !.best_model_state = Some(dict_copy(state_dict)),
                    !.counter = 0]
    ELSE [es EXCEPT !.counter = es.counter + 1,
                    !.early_stop = (es.counter + 1 > es.patience) \/ es.early_stop]

\* EarlyStopping.__call__: the instance after the call; the value returned is
\* the new early_stop.
EarlyStoppingCall(es, score) ==
    IF ~es.best_score.some
    THEN [es EXCEPT !.best_score = Some(score),
                    !.best_model_state = Some(dict_copy(state_dict))]
    ELSE IF is_improvement(es, score)
    THEN [es EXCEPT !.best_score = Some(score),
                    !.best_model_state = Some(dict_copy(state_dict)),
                    !.counter = 0]
    ELSE [es EXCEPT !.counter = es.counter + 1,
                    !.early_stop = (es.counter + 1 >= es.patience) \/ es.early_stop]

\* EarlyStopping.load_best_model: load_state_dict copies each snapshot
\* tensor's content into the model's tensor of that name.
load_best_model(es, t) ==
    IF es.best_model_state.some
    THEN [i \in TensorIds |->
            LET n == CHOOSE m \in ParamNames : ModelTensor[m] = i
            IN  t[es.best_model_state.v[n]]]
    ELSE t

\* EarlyStopping(patience, min_delta, mode) constructed by a caller of the
\* class outside train_model.
NewEarlyStopping(patience, min_delta, mode) ==
    /\ tpc = "idle"
    /\ early_stopping' = EarlyStoppingInit(patience, min_delta, mode)
    /\ UNCHANGED <<tpc, epoch, num_epochs, val_loss, tensors, scheduler, history, cv>>
    /\ UNCHANGED <<procVars, serveVars, modelVars>>

\* early_stopping(score, model) called on that instance, also after it has
\* returned True.  The calls are counted up to MaxPatience + 2 without
\* improvement.
CallEarlyStopping(score) ==
    /\ tpc = "idle"
    /\ early_stopping.counter <= MaxPatience + 1
    /\ early_stopping' = EarlyStoppingCall(early_stopping, score)
    /\ UNCHANGED <<tpc, epoch, num_epochs, val_loss, tensors, scheduler, history, cv>>
    /\ UNCHANGED <<procVars, serveVars, modelVars>>

(***************************************************************************)
(* train_model.py : ReduceLROnPlateau(mode='min', patience=5, factor=0.5)  *)
(***************************************************************************)
SchedulerPatience == 5

SchedulerInit == [best |-> None, num_bad_epochs |-> 0, halvings |-> 0]

\* scheduler.step with `num_bad_epochs >= patience` in place of `>`.
SchedulerStepOpAtPatience(s, loss) ==
    LET better == (~s.best.some) \/ loss < s.best.v
        bad == IF better THEN 0 ELSE s.num_bad_epochs + 1
    IN  [best |-> IF better THEN Some(loss) ELSE s.best,
         num_bad_epochs |-> IF bad >= SchedulerPatience THEN 0 ELSE bad,
         halvings |-> IF bad >= SchedulerPatience THEN s.halvings + 1 ELSE s.halvings]

\* scheduler.step(val_loss): losses are integers here, for which the relative
\* threshold test a < best * (1 - 1e-4) is a < best.  The learning rate is
\* learning_rate * 0.5^halvings (factor=0.5, cooldown 0).
SchedulerStepOp(s, loss) ==
    LET better == (~s.best.some) \/ loss < s.best.v
        bad == IF better THEN 0 ELSE s.num_bad_epochs + 1
    IN  [best |-> IF better THEN Some(loss) ELSE s.best,
         num_bad_epochs |-> IF bad > SchedulerPatience THEN 0 ELSE bad,
         halvings |-> IF bad > SchedulerPatience THEN s.halvings + 1 ELSE s.halvings]

(***************************************************************************)
(* train_model.py : train_model                                            *)
(***************************************************************************)
\* settings.NUM_EPOCHS and settings.EARLY_STOPPING_PATIENCE, which
\* cross_validate passes to train_model.
NUM_EPOCHS == 3
EARLY_STOPPING_PATIENCE == 1


\* train_model called on the model object of the call before: a model
\* constructed once, outside the loop over the folds.
StartTrainingSameModel ==
    /\ tpc = "idle"
    /\ \E a \in ((0..MaxEpochs) \X (0..MaxPatience))
                 \cup {<<SchedulerPatience + 2, SchedulerPatience + 1>>} :
       \E n \in {a[1]}, p \in {a[2]} :
         /\ cv.pc = "folds" => a = <<NUM_EPOCHS, EARLY_STOPPING_PATIENCE>>
         /\ num_epochs' = n
         /\ early_stopping' = EarlyStoppingInit(p, 0, "min")
         /\ tpc' = IF n > 0 THEN "train_epoch" ELSE "load_best_model"
    /\ scheduler' = SchedulerInit
    /\ history' = <<>>
    /\ epoch' = 0
    /\ val_loss' = 0
    /\ tensors' = tensors
    /\ cv' = IF cv.pc = "folds"
             THEN cv
             ELSE [pc |-> "idle", n_folds |-> 0, fold |-> 0, fold_results |-> <<>>]
    /\ UNCHANGED <<procVars, serveVars, modelVars>>

\* train_model is called on a newly constructed model (content 0: the
\* initial weights); lines 347-354.  The caller's num_epochs and patience
\* are small, or those of one long run: enough epochs and patience for the
\* scheduler to see a plateau (an epoch that sets its best, then
\* SchedulerPatience + 1 that fail to improve).  Inside cross_validate they
\* are the settings' (lines 434-439); a call from elsewhere finds no
\* cross-validation result of an earlier caller.
StartTraining ==
    /\ tpc = "idle"
    /\ \E a \in ((0..MaxEpochs) \X (0..MaxPatience))
                 \cup {<<SchedulerPatience + 2, SchedulerPatience + 1>>} :
       \E n \in {a[1]}, p \in {a[2]} :
         /\ cv.pc = "folds" => a = <<NUM_EPOCHS, EARLY_STOPPING_PATIENCE>>
         /\ num_epochs' = n
         /\ early_stopping' = EarlyStoppingInit(p, 0, "min")
         /\ tpc' = IF n > 0 THEN "train_epoch" ELSE "load_best_model"
    /\ scheduler' = SchedulerInit
    /\ history' = <<>>
    /\ epoch' = 0
    /\ val_loss' = 0
    /\ tensors' = [i \in TensorIds |-> 0]
    /\ cv' = IF cv.pc = "folds"
             THEN cv
             ELSE [pc |-> "idle", n_folds |-> 0, fold |-> 0, fold_results |-> <<>>]
    /\ UNCHANGED <<procVars, serveVars, modelVars>>

\* train_epoch: every batch's optimizer.step() and BatchNorm forward write the
\* model's tensors in place.  The content after the pass of epoch index e is
\* written e + 1: the weights of the (e+1)-th epoch.
TrainEpoch ==
    /\ tpc = "train_epoch"
    /\ tensors' = [i \in TensorIds |-> epoch + 1]
    /\ tpc' = "validate_epoch"
    /\ UNCHANGED <<epoch, num_epochs, val_loss, early_stopping, scheduler, history>>
    /\ UNCHANGED <<cv, procVars, serveVars, modelVars>>

\* validate_epoch without model.eval(): each BatchNorm forward of the
\* validation batches writes the running statistics.
ValidateEpochTrainMode ==
    /\ tpc = "validate_epoch"
    /\ \E l \in 0..MaxLoss : val_loss' = l
    /\ tensors' = [tensors EXCEPT ![ModelTensor["input_bn.running_mean"]] = MaxEpochs + 1]
    /\ tpc' = "scheduler_step"
    /\ UNCHANGED <<epoch, num_epochs, early_stopping, scheduler, history>>
    /\ UNCHANGED <<cv, procVars, serveVars, modelVars>>

\* validate_epoch: model.eval(), torch.no_grad(); no tensor is written.
ValidateEpoch ==
    /\ tpc = "validate_epoch"
    /\ \E l \in 0..MaxLoss : val_loss' = l
    /\ tpc' = "scheduler_step"
    /\ UNCHANGED <<epoch, num_epochs, tensors, early_stopping, scheduler, history>>
    /\ UNCHANGED <<cv, procVars, serveVars, modelVars>>

SchedulerStep ==
    /\ tpc = "scheduler_step"
    /\ scheduler' = SchedulerStepOp(scheduler, val_loss)
    /\ tpc' = "history_append"
    /\ UNCHANGED <<epoch, num_epochs, val_loss, tensors, early_stopping, history>>
    /\ UNCHANGED <<cv, procVars, serveVars, modelVars>>

\* history.append with 'epoch': epoch in place of epoch + 1.
HistoryAppendEpochIndex ==
    /\ tpc = "history_append"
    /\ history' = Append(history, [epoch |-> epoch, val_loss |-> val_loss])
    /\ tpc' = "early_stopping"
    /\ UNCHANGED <<epoch, num_epochs, val_loss, tensors, early_stopping, scheduler>>
    /\ UNCHANGED <<cv, procVars, serveVars, modelVars>>

\* history.append; train_loss and the AUC are not read by the control flow.
HistoryAppend ==
    /\ tpc = "history_append"
    /\ history' = Append(history, [epoch |-> epoch + 1, val_loss |-> val_loss])
    /\ tpc' = "early_stopping"
    /\ UNCHANGED <<epoch, num_epochs, val_loss, tensors, early_stopping, scheduler>>
    /\ UNCHANGED <<cv, procVars, serveVars, modelVars>>

\* `if early_stopping(val_loss, model): break`, else the next iteration.
EarlyStoppingCheck ==
    /\ tpc = "early_stopping"
    /\ early_stopping' = EarlyStoppingCall(early_stopping, val_loss)
    /\ IF early_stopping'.early_stop
       THEN /\ tpc' = "load_best_model"
            /\ epoch' = epoch
       ELSE /\ epoch' = epoch + 1
            /\ tpc' = IF epoch + 1 < num_epochs THEN "train_epoch" ELSE "load_best_model"
    /\ UNCHANGED <<num_epochs, val_loss, tensors, scheduler, history>>
    /\ UNCHANGED <<cv, procVars, serveVars, modelVars>>

\* early_stopping.load_best_model(model); return model, history.
LoadBestModel ==
    /\ tpc = "load_best_model"
    /\ tensors' = load_best_model(early_stopping, tensors)
    /\ tpc' = "done"
    /\ UNCHANGED <<epoch, num_epochs, val_loss, early_stopping, scheduler, history>>
    /\ UNCHANGED <<cv, procVars, serveVars, modelVars>>

\* The caller outside cross_validate takes the result; the next call starts
\* from idle.
Return ==
    /\ tpc = "done"
    /\ cv.pc # "folds"
    /\ tpc' = "idle"
    /\ UNCHANGED <<epoch, num_epochs, val_loss, tensors, early_stopping, scheduler, history>>
    /\ UNCHANGED <<cv, procVars, serveVars, modelVars>>

(***************************************************************************)
(* train_model.py : cross_validate                                         *)
(***************************************************************************)
\* cross_validate(X, y, n_folds) on X of `rows` rows, lines 397-404.
\* KFold(n_splits) raises ValueError for n_splits < 2, and kfold.split(X)
\* raises it before the first fold when n_splits exceeds the rows of X.
CrossValidate(n_folds, rows) ==
    /\ tpc = "idle"
    /\ cv.pc # "folds"
    /\ cv' = [pc |-> IF n_folds < 2 \/ n_folds > rows THEN "raised" ELSE "folds",
              n_folds |-> n_folds, fold |-> 0, fold_results |-> <<>>]
    /\ UNCHANGED <<tpc, epoch, num_epochs, val_loss, tensors, early_stopping, scheduler, history>>
    /\ UNCHANGED <<procVars, serveVars, modelVars>>

\* The end of one iteration, lines 440-448: train_model has returned; the
\* evaluation by validate_epoch writes no tensor; fold_results.append.  After
\* the last fold cross_validate returns fold_results.
FoldResult ==
    /\ tpc = "done"
    /\ cv.pc = "folds"
    /\ cv' = [cv EXCEPT !.fold_results = Append(@, [fold |-> cv.fold + 1, history |-> history]),
                        !.fold = @ + 1,
                        !.pc = IF cv.fold + 1 = cv.n_folds THEN "returned" ELSE "folds"]
    /\ tpc' = "idle"
    /\ UNCHANGED <<epoch, num_epochs, val_loss, tensors, early_stopping, scheduler, history>>
    /\ UNCHANGED <<procVars, serveVars, modelVars>>

(***************************************************************************)
(* data_processor.py : tables and cell values                              *)
(*                                                                         *)
(* A cell is a float or NaN.  A float x is held in fixed point as the      *)
(* integer x * FP; FP is divisible by every divisor the feature rules use  *)
(* (2, 7, 100 and a mean over 1..6 columns).                               *)
(***************************************************************************)
FP == 2 * 2 * 3 * 5 * 5 * 7

NaN == [nan |-> TRUE, v |-> 0]
Num(n) == [nan |-> FALSE, v |-> n]
Float(n) == Num(n * FP)

\* a * b, as (a * b) \div FP computed without the wide intermediate product.
Mul(a, b) ==
    IF a.nan \/ b.nan THEN NaN
    ELSE Num((a.v \div FP) * b.v + ((a.v % FP) * b.v) \div FP)
Plus(a, b) == IF a.nan \/ b.nan THEN NaN ELSE Num(a.v + b.v)
Minus(a, b) == IF a.nan \/ b.nan THEN NaN ELSE Num(a.v - b.v)
DivBy(a, k) == IF a.nan THEN NaN ELSE Num(a.v \div k)
\* A comparison with NaN is False; astype(int) of a boolean is 0 or 1.
AsInt(b) == IF b THEN Float(1) ELSE Float(0)

Range(s) == {s[i] : i \in 1..Len(s)}

\* A DataFrame: the column labels in order, and the rows (column -> cell).
Frame(cols, rows) == [cols |-> cols, rows |-> rows]
NoFrame == Frame(<<>>, <<>>)
Has(df, c) == c \in Range(df.cols)

\* df[names]: the listed columns, in the listed order.
Select(df, names) ==
    Frame(names, [i \in 1..Len(df.rows) |-> [c \in Range(names) |-> df.rows[i][c]]])

RECURSIVE SumCells(_, _)
SumCells(r, S) ==
    IF S = {} THEN 0
    ELSE LET c == CHOOSE x \in S : TRUE IN r[c].v + SumCells(r, S \ {c})

Observed(r, S) == {c \in S : ~r[c].nan}
\* DataFrame.mean(axis=1): NaN cells are skipped; NaN when all are NaN.
RowMean(r, S) ==
    IF Observed(r, S) = {} THEN NaN
    ELSE Num(SumCells(r, Observed(r, S)) \div Cardinality(Observed(r, S)))
\* DataFrame.sum(axis=1): NaN cells are skipped; 0 when all are NaN.
RowSum(r, S) == Num(SumCells(r, Observed(r, S)))

(***************************************************************************)
(* data_processor.py : DataProcessor._engineer_features                    *)
(***************************************************************************)
ENVIRONMENTAL_FEATURES ==
    <<"pm25", "pm10", "aqi", "temperature", "humidity", "uv_index",
      "ozone", "no2", "so2", "co", "wind_speed", "precipitation">>
HEALTH_FEATURES ==
    <<"age", "bmi", "heart_rate", "blood_pressure_systolic",
      "blood_pressure_diastolic", "has_asthma", "has_copd",
      "has_heart_disease", "has_diabetes", "smoker", "exercise_frequency">>
GENOMIC_FEATURES ==
    <<"gene_variant_1", "gene_variant_2", "gene_variant_3",
      "gene_variant_4", "gene_variant_5", "genetic_risk_score">>
TARGET_CONDITIONS ==
    <<"asthma_risk", "heatstroke_risk", "cardiovascular_risk", "respiratory_risk">>

pollutants == {"pm25", "pm10", "ozone", "no2", "so2", "co"}
comorbidity_cols == {"has_asthma", "has_copd", "has_heart_disease", "has_diabetes"}

\* The columns the rules assign, in the order of the assignments (lines 98-145).
DerivedColumns ==
    <<"pm25_aqi_interaction", "heat_index", "temp_squared", "extreme_heat",
      "extreme_cold", "air_quality_composite", "age_squared", "elderly", "child",
      "obese", "underweight", "hypertension", "pulse_pressure", "comorbidity_count",
      "lifestyle_risk", "exposure_vulnerability">>

\* The rules' conditions with `len(available_pollutants) >= 0` for `> 0`.
RuleAppliesAnyPollutants(d, cols) ==
    CASE d = "pm25_aqi_interaction" -> "pm25" \in cols /\ "aqi" \in cols
      [] d = "heat_index" -> "temperature" \in cols /\ "humidity" \in cols
      [] d \in {"temp_squared", "extreme_heat", "extreme_cold"} -> "temperature" \in cols
      [] d = "air_quality_composite" -> Cardinality(pollutants \cap cols) >= 0
      [] d \in {"age_squared", "elderly", "child"} -> "age" \in cols
      [] d \in {"obese", "underweight"} -> "bmi" \in cols
      [] d \in {"hypertension", "pulse_pressure"} ->
            "blood_pressure_systolic" \in cols /\ "blood_pressure_diastolic" \in cols
      [] d = "comorbidity_count" -> Cardinality(comorbidity_cols \cap cols) > 0
      [] d = "lifestyle_risk" -> "smoker" \in cols /\ "exercise_frequency" \in cols
      [] d = "exposure_vulnerability" -> "pm25" \in cols /\ "age" \in cols

\* The `if` guarding the assignment of column d, on the frame's column labels.
RuleApplies(d, cols) ==
    CASE d = "pm25_aqi_interaction" -> "pm25" \in cols /\ "aqi" \in cols
      [] d = "heat_index" -> "temperature" \in cols /\ "humidity" \in cols
      [] d \in {"temp_squared", "extreme_heat", "extreme_cold"} -> "temperature" \in cols
      [] d = "air_quality_composite" -> Cardinality(pollutants \cap cols) > 0
      [] d \in {"age_squared", "elderly", "child"} -> "age" \in cols
      [] d \in {"obese", "underweight"} -> "bmi" \in cols
      [] d \in {"hypertension", "pulse_pressure"} ->
            "blood_pressure_systolic" \in cols /\ "blood_pressure_diastolic" \in cols
      [] d = "comorbidity_count" -> Cardinality(comorbidity_cols \cap cols) > 0
      [] d = "lifestyle_risk" -> "smoker" \in cols /\ "exercise_frequency" \in cols
      [] d = "exposure_vulnerability" -> "pm25" \in cols /\ "age" \in cols

\* The right-hand side of the assignment of column d, on row r of the frame
\* (cols: the frame's column labels).
RuleValue(d, r, cols) ==
    CASE d = "pm25_aqi_interaction" -> Mul(r["pm25"], r["aqi"])
      [] d = "heat_index" -> Plus(r["temperature"], DivBy(r["humidity"], 2))
      [] d = "temp_squared" -> Mul(r["temperature"], r["temperature"])
      [] d = "extreme_heat" -> AsInt(~r["temperature"].nan /\ r["temperature"].v > 35 * FP)
      [] d = "extreme_cold" -> AsInt(~r["temperature"].nan /\ r["temperature"].v < 0)
      [] d = "air_quality_composite" -> RowMean(r, pollutants \cap cols)
      [] d = "age_squared" -> Mul(r["age"], r["age"])
      [] d = "elderly" -> AsInt(~r["age"].nan /\ r["age"].v >= 65 * FP)
      [] d = "child" -> AsInt(~r["age"].nan /\ r["age"].v < 18 * FP)
      [] d = "obese" -> AsInt(~r["bmi"].nan /\ r["bmi"].v >= 30 * FP)
      [] d = "underweight" -> AsInt(~r["bmi"].nan /\ 2 * r["bmi"].v < 37 * FP)
      [] d = "hypertension" ->
            AsInt(\/ (~r["blood_pressure_systolic"].nan
                        /\ r["blood_pressure_systolic"].v >= 140 * FP)
                  \/ (~r["blood_pressure_diastolic"].nan
                        /\ r["blood_pressure_diastolic"].v >= 90 * FP))
      [] d = "pulse_pressure" ->
            Minus(r["blood_pressure_systolic"], r["blood_pressure_diastolic"])
      [] d = "comorbidity_count" -> RowSum(r, comorbidity_cols \cap cols)
      [] d = "lifestyle_risk" -> Minus(r["smoker"], DivBy(r["exercise_frequency"], 7))
      [] d = "exposure_vulnerability" -> Mul(r["pm25"], DivBy(r["age"], 100))

\* DataProcessor._engineer_features: works on a copy of df.  No rule tests or
\* reads a column that a rule assigns (the conditions and the right-hand
\* sides name raw columns only), so every rule sees the columns and the cells
\* of df as they were passed in, and the assignments are made here in one
\* step: an assigned column that df already has keeps its place, the others
\* are appended in the order of the assignments.
engineer_features(df) ==
    LET cols == Range(df.cols)
        assigned == {d \in Range(DerivedColumns) : RuleApplies(d, cols)}
        appended == SelectSeq(DerivedColumns, LAMBDA d : d \in assigned /\ d \notin cols)
    IN  Frame(df.cols \o appended,
              [i \in 1..Len(df.rows) |->
                 [c \in cols \cup assigned |->
                    IF c \in assigned THEN RuleValue(c, df.rows[i], cols)
                    ELSE df.rows[i][c]]])

(***************************************************************************)
(* data_processor.py : DataProcessor                                       *)
(***************************************************************************)

\* The instance.  fitted_feature_names is None until fit creates the
\* attribute.  The imputer and the scaler are the sklearn estimators: what a
\* fitted imputer keeps is the columns it was fitted on and, among them, the
\* ones with an observed value (a column with none is dropped from its
\* output); what a fitted scaler keeps is the number of columns it was
\* fitted on.
NewImputer(kind) == [kind |-> kind, fitted |-> FALSE, cols |-> <<>>, valid |-> <<>>]
NewScaler(kind) == [kind |-> kind, fitted |-> FALSE, n |-> 0]

NoProcessor ==
    [exists |-> FALSE, scaler_type |-> "", imputer_type |-> "",
     feature_engineering |-> FALSE, scaler |-> NewScaler(""), imputer |-> NewImputer(""),
     is_fitted |-> FALSE, feature_names |-> None, fitted_feature_names |-> None,
     target_names |-> None]

\* The outcome of a call: the exception raised or "ok"; the table built (the
\* frame handed to the imputer, or the frame returned); the shape of the array
\* returned; the list returned.
Ret(op, status) ==
    [op |-> op, status |-> status, frame |-> NoFrame, rows |-> 0, width |-> 0,
     names |-> <<>>]
Arg(frame, rows, width) == [frame |-> frame, rows |-> rows, width |-> width]
NoArg == Arg(NoFrame, 0, 0)

\* DataProcessor.__init__ with the scaler's else-branch falling back to a
\* RobustScaler instead of raising.
InitNoScalerCheck(p, scaler_type, imputer_type, feature_engineering) ==
    IF imputer_type \notin {"simple", "knn"}
    THEN [proc |-> p, ret |-> Ret("__init__", "ValueError")]
    ELSE [proc |->
            [exists |-> TRUE, scaler_type |-> scaler_type, imputer_type |-> imputer_type,
             feature_engineering |-> feature_engineering,
             scaler |-> NewScaler(IF scaler_type = "standard" THEN "StandardScaler"
                                  ELSE "RobustScaler"),
             imputer |-> NewImputer(IF imputer_type = "simple" THEN "SimpleImputer"
                                    ELSE "KNNImputer"),
             is_fitted |-> FALSE, feature_names |-> None, fitted_feature_names |-> None,
             target_names |-> None],
          ret |-> Ret("__init__", "ok")]

\* DataProcessor.__init__: p is what the caller's name is bound to before; a
\* constructor that raises binds nothing.
Init__(p, scaler_type, imputer_type, feature_engineering) ==
    IF scaler_type \notin {"standard", "robust"}
    THEN [proc |-> p, ret |-> Ret("__init__", "ValueError")]
    ELSE IF imputer_type \notin {"simple", "knn"}
    THEN [proc |-> p, ret |-> Ret("__init__", "ValueError")]
    ELSE [proc |->
            [exists |-> TRUE, scaler_type |-> scaler_type, imputer_type |-> imputer_type,
             feature_engineering |-> feature_engineering,
             scaler |-> NewScaler(IF scaler_type = "standard" THEN "StandardScaler"
                                  ELSE "RobustScaler"),
             imputer |-> NewImputer(IF imputer_type = "simple" THEN "SimpleImputer"
                                    ELSE "KNNImputer"),
             is_fitted |-> FALSE, feature_names |-> None, fitted_feature_names |-> None,
             target_names |-> None],
          ret |-> Ret("__init__", "ok")]

\* sklearn's input validation: at least one row and one column.
ImputerAccepts(X) == Len(X.rows) >= 1 /\ Len(X.cols) >= 1

\* The columns of X with at least one observed value.
ObservedColumns(X) ==
    SelectSeq(X.cols, LAMBDA c : \E i \in 1..Len(X.rows) : ~X.rows[i][c].nan)

\* DataProcessor.fit.  The assignments happen in the order of the code, so a
\* call that raises keeps the ones made before the raise.
fit(p, X, y) ==
    LET p1 == [p EXCEPT !.feature_names = Some(X.cols)]
        X1 == IF p.feature_engineering THEN engineer_features(X) ELSE X
        p2 == [p1 EXCEPT !.fitted_feature_names = Some(X1.cols)]
        imputer == [p.imputer EXCEPT !.fitted = TRUE, !.cols = X1.cols,
                                     !.valid = ObservedColumns(X1)]
        p3 == [p2 EXCEPT !.imputer = imputer]
        p4 == [p3 EXCEPT !.scaler = [p.scaler EXCEPT !.fitted = TRUE,
                                                     !.n = Len(imputer.valid)]]
        p5 == IF y.some THEN [p4 EXCEPT !.target_names = Some(y.v)] ELSE p4
    IN  IF ~ImputerAccepts(X1)
        THEN [proc |-> p2, ret |-> Ret("fit", "ValueError")]
        ELSE IF Len(imputer.valid) = 0
        THEN [proc |-> p3, ret |-> Ret("fit", "ValueError")]
        ELSE [proc |-> [p5 EXCEPT !.is_fitted = TRUE], ret |-> Ret("fit", "ok")]

\* Lines 206-210: every fitted column missing from X is added, all zeros.
ZeroFill(X, fitted_feature_names) ==
    LET missing_features == Range(fitted_feature_names) \ Range(X.cols)
        added == SelectSeq(fitted_feature_names, LAMBDA c : c \in missing_features)
    IN  Frame(X.cols \o added,
              [i \in 1..Len(X.rows) |->
                 [c \in Range(X.cols) \cup missing_features |->
                    IF c \in missing_features THEN Float(0) ELSE X.rows[i][c]]])

\* The frame handed to the imputer (lines 201-213).
ReconciledFrame(p, X) ==
    LET X1 == IF p.feature_engineering THEN engineer_features(X) ELSE X
    IN  Select(ZeroFill(X1, p.fitted_feature_names.v), p.fitted_feature_names.v)

\* DataProcessor.transform with self.feature_names set from the reordered frame.
transformStoringColumns(p, X) ==
    IF ~p.is_fitted
    THEN [proc |-> p, ret |-> Ret("transform", "ValueError")]
    ELSE LET X3 == ReconciledFrame(p, X)
             r == [Ret("transform", "ok") EXCEPT !.frame = X3]
         IN  IF \/ ~ImputerAccepts(X3)
                \/ X3.cols # p.imputer.cols
                \/ Len(p.imputer.valid) # p.scaler.n
             THEN [proc |-> p, ret |-> [r EXCEPT !.status = "ValueError"]]
             ELSE [proc |-> [p EXCEPT !.feature_names = Some(X3.cols)],
                   ret |-> [r EXCEPT !.rows = Len(X3.rows),
                                     !.width = Len(p.imputer.valid)]]

\* DataProcessor.transform.  imputer.transform raises on an empty table and on
\* columns other than those it was fitted on, and returns the columns that had
\* an observed value at fit; scaler.transform raises on a width other than the
\* one it was fitted on.
transform(p, X) ==
    IF ~p.is_fitted
    THEN [proc |-> p, ret |-> Ret("transform", "ValueError")]
    ELSE LET X3 == ReconciledFrame(p, X)
             r == [Ret("transform", "ok") EXCEPT !.frame = X3]
         IN  IF \/ ~ImputerAccepts(X3)
                \/ X3.cols # p.imputer.cols
                \/ Len(p.imputer.valid) # p.scaler.n
             THEN [proc |-> p, ret |-> [r EXCEPT !.status = "ValueError"]]
             ELSE [proc |-> p,
                   ret |-> [r EXCEPT !.rows = Len(X3.rows),
                                     !.width = Len(p.imputer.valid)]]

\* DataProcessor.fit_transform: self.fit(X, y).transform(X).
fit_transform(p, X, y) ==
    LET f == fit(p, X, y)
        t == transform(f.proc, X)
    IN  IF f.ret.status # "ok"
        THEN [proc |-> f.proc, ret |-> [f.ret EXCEPT !.op = "fit_transform"]]
        ELSE [proc |-> t.proc, ret |-> [t.ret EXCEPT !.op = "fit_transform"]]

\* DataProcessor.inverse_transform on an array of the given shape.
inverse_transform(p, rows, width) ==
    IF ~p.is_fitted
    THEN [proc |-> p, ret |-> Ret("inverse_transform", "ValueError")]
    ELSE IF rows < 1 \/ width # p.scaler.n
    THEN [proc |-> p, ret |-> Ret("inverse_transform", "ValueError")]
    ELSE [proc |-> p,
          ret |-> [Ret("inverse_transform", "ok") EXCEPT !.rows = rows, !.width = width]]

\* DataProcessor.get_feature_names
get_feature_names(p) ==
    IF ~p.is_fitted
    THEN [proc |-> p, ret |-> Ret("get_feature_names", "ValueError")]
    ELSE [proc |-> p,
          ret |-> [Ret("get_feature_names", "ok") EXCEPT !.names = p.fitted_feature_names.v]]

\* Lines 317-319: every expected column missing from df is added, all NaN.
NaNFill(df, feature_names) ==
    LET absent == Range(feature_names) \ Range(df.cols)
        added == SelectSeq(feature_names, LAMBDA c : c \in absent)
    IN  Frame(df.cols \o added,
              [i \in 1..Len(df.rows) |->
                 [c \in Range(df.cols) \cup absent |->
                    IF c \in absent THEN NaN ELSE df.rows[i][c]]])

\* DataProcessor.prepare_input returning the frame without the final
\* df[self.feature_names].
prepare_inputNoSelect(p, data) ==
    IF ~p.feature_names.some
    THEN [proc |-> p, ret |-> Ret("prepare_input", "TypeError")]
    ELSE LET df == NaNFill(data, p.feature_names.v)
         IN  [proc |-> p,
              ret |-> [Ret("prepare_input", "ok") EXCEPT
                         !.frame = df, !.rows = Len(df.rows), !.width = Len(df.cols)]]

\* DataProcessor.prepare_input without the loop that adds the absent
\* features: the frame holds the given keys that are original columns.
prepare_inputNoFill(p, data) ==
    IF ~p.feature_names.some
    THEN [proc |-> p, ret |-> Ret("prepare_input", "TypeError")]
    ELSE LET df == Select(data, SelectSeq(p.feature_names.v, LAMBDA c : Has(data, c)))
         IN  [proc |-> p,
              ret |-> [Ret("prepare_input", "ok") EXCEPT
                         !.frame = df, !.rows = Len(df.rows), !.width = Len(df.cols)]]

\* DataProcessor.prepare_input: data is the one-row frame pd.DataFrame([data]).
\* There is no is_fitted test; iterating self.feature_names raises TypeError
\* while it is None.
prepare_input(p, data) ==
    IF ~p.feature_names.some
    THEN [proc |-> p, ret |-> Ret("prepare_input", "TypeError")]
    ELSE LET df == Select(NaNFill(data, p.feature_names.v), p.feature_names.v)
         IN  [proc |-> p,
              ret |-> [Ret("prepare_input", "ok") EXCEPT
                         !.frame = df, !.rows = Len(df.rows), !.width = Len(df.cols)]]

\* The pickle file: absent, empty (opened for writing and nothing dumped), or
\* holding the dict that save dumps.
NoFile == [state |-> "absent", data |-> NoProcessor]
EmptyFile == [state |-> "empty", data |-> NoProcessor]
Pickle(data) == [state |-> "pickle", data |-> data]

\* DataProcessor.save: the file is opened 'wb' before the dict is built, and
\* building the dict reads self.fitted_feature_names.
save(p) ==
    IF ~p.fitted_feature_names.some
    THEN [proc |-> p, file |-> EmptyFile, ret |-> Ret("save", "AttributeError")]
    ELSE [proc |-> p, file |-> Pickle(p), ret |-> Ret("save", "ok")]

\* DataProcessor.load: cls(...) with the saved kinds, then the saved state.
load(p, file) ==
    IF file.state = "absent"
    THEN [proc |-> p, ret |-> Ret("load", "FileNotFoundError")]
    ELSE IF file.state = "empty"
    THEN [proc |-> p, ret |-> Ret("load", "EOFError")]
    ELSE LET data == file.data
             c == Init__(p, data.scaler_type, data.imputer_type, data.feature_engineering)
         IN  IF c.ret.status # "ok"
             THEN [proc |-> p, ret |-> Ret("load", c.ret.status)]
             ELSE [proc |-> [c.proc EXCEPT
                               !.scaler = data.scaler,
                               !.imputer = data.imputer,
                               !.is_fitted = data.is_fitted,
                               !.feature_names = data.feature_names,
                               !.fitted_feature_names = data.fitted_feature_names,
                               !.target_names = data.target_names],
                   ret |-> Ret("load", "ok")]

(***************************************************************************)
(* data_processor.py : the calls made on the instance, and their inputs    *)
(***************************************************************************)

\* Input records: a full one, one with missing readings, and their cells.
SampleValue(s, c) ==
    IF s = "adult"
    THEN CASE c \in {"has_asthma", "has_copd", "has_heart_disease", "has_diabetes", "smoker"}
                -> Float(1)
           [] c = "exercise_frequency" -> Float(7)
           [] OTHER -> Float(40)
    ELSE CASE c \in {"pm25", "humidity", "uv_index", "bmi", "has_asthma", "smoker", "station"}
                -> NaN
           [] c = "temperature" -> Float(0 - 5)
           [] c = "age" -> Float(70)
           [] OTHER -> Float(2)
Row(s, cols) == [c \in Range(cols) |-> SampleValue(s, c)]

\* Input schemas: the minimal request, the test fixture (a superset of it),
\* and health columns with one column no rule knows.
MinimalCols == <<"pm25", "temperature", "age">>
FixtureCols == <<"pm25", "aqi", "temperature", "humidity", "age", "bmi">>
Schemas ==
    {MinimalCols, FixtureCols,
     <<"age", "smoker", "exercise_frequency", "has_asthma",
       "blood_pressure_systolic", "blood_pressure_diastolic", "station">>}

\* The tables over the schemas with lo..hi rows.
TablesOf(schemas, lo, hi) ==
    UNION {{Frame(cols, [i \in 1..k |-> Row(ss[i], cols)]) : ss \in [1..k -> {"adult", "partial"}]} :
             cols \in schemas, k \in lo..hi}
Tables == TablesOf(Schemas, 0, MaxRows)
\* pd.DataFrame([data]) for a dict data: one row, the keys as columns.
\* The y argument of fit: absent, or the outcomes table's columns.
Targets == {None, Some(TARGET_CONDITIONS)}
\* Constructor arguments: what main passes, the other supported kinds, and an
\* unsupported scaler and imputer.
Configs ==
    {<<"standard", "knn", TRUE>>, <<"robust", "simple", FALSE>>,
     <<"minmax", "knn", TRUE>>, <<"standard", "mean", TRUE>>}
\* A pickle written by another build, whose scaler kind this one lacks.
ForeignPickles ==
    {Pickle([NoProcessor EXCEPT !.exists = TRUE, !.scaler_type = "minmax",
                                !.imputer_type = "knn", !.feature_engineering = TRUE])}


Construct(c) ==
    LET r == Init__(proc, c[1], c[2], c[3])
    IN  /\ proc' = r.proc
        /\ ret' = r.ret
        /\ arg' = NoArg
        /\ UNCHANGED <<disk, trainVars, serveVars, modelVars>>

Fit(X, y) ==
    /\ proc.exists
    /\ LET r == fit(proc, X, y)
       IN  /\ proc' = r.proc
           /\ ret' = r.ret
    /\ arg' = Arg(X, Len(X.rows), Len(X.cols))
    /\ UNCHANGED <<disk, trainVars, serveVars, modelVars>>

FitTransform(X, y) ==
    /\ proc.exists
    /\ LET r == fit_transform(proc, X, y)
       IN  /\ proc' = r.proc
           /\ ret' = r.ret
    /\ arg' = Arg(X, Len(X.rows), Len(X.cols))
    /\ UNCHANGED <<disk, trainVars, serveVars, modelVars>>

Transform(X) ==
    /\ proc.exists
    /\ LET r == transform(proc, X)
       IN  /\ proc' = r.proc
           /\ ret' = r.ret
    /\ arg' = Arg(X, Len(X.rows), Len(X.cols))
    /\ UNCHANGED <<disk, trainVars, serveVars, modelVars>>

\* inverse_transform on a one-row array as wide as the scaler's input, or as
\* wide as the fitted column list.
InverseTransform ==
    /\ proc.exists
    /\ \E width \in {proc.scaler.n, Len(proc.fitted_feature_names.v)} :
         LET r == inverse_transform(proc, 1, width)
         IN  /\ proc' = r.proc
             /\ ret' = r.ret
             /\ arg' = Arg(NoFrame, 1, width)
    /\ UNCHANGED <<disk, trainVars, serveVars, modelVars>>

GetFeatureNames ==
    /\ proc.exists
    /\ LET r == get_feature_names(proc)
       IN  /\ proc' = r.proc
           /\ ret' = r.ret
    /\ arg' = NoArg
    /\ UNCHANGED <<disk, trainVars, serveVars, modelVars>>

PrepareInput(data) ==
    /\ proc.exists
    /\ LET r == prepare_input(proc, data)
       IN  /\ proc' = r.proc
           /\ ret' = r.ret
    /\ arg' = Arg(data, Len(data.rows), Len(data.cols))
    /\ UNCHANGED <<disk, trainVars, serveVars, modelVars>>

\* _engineer_features on an input table.
EngineerFeatures(X) ==
    /\ proc.exists
    /\ LET df == engineer_features(X)
       IN  ret' = [Ret("_engineer_features", "ok") EXCEPT
                     !.frame = df, !.rows = Len(df.rows), !.width = Len(df.cols)]
    /\ arg' = Arg(X, Len(X.rows), Len(X.cols))
    /\ UNCHANGED <<proc, disk, trainVars, serveVars, modelVars>>

\* _engineer_features on the table its last call returned.
EngineerAgain ==
    /\ proc.exists
    /\ ret.op \in {"_engineer_features", "_engineer_features again"}
    /\ LET df == engineer_features(ret.frame)
       IN  ret' = [Ret("_engineer_features again", "ok") EXCEPT
                     !.frame = df, !.rows = Len(df.rows), !.width = Len(df.cols)]
    /\ arg' = Arg(ret.frame, ret.rows, ret.width)
    /\ UNCHANGED <<proc, disk, trainVars, serveVars, modelVars>>

Save ==
    /\ proc.exists
    /\ LET r == save(proc)
       IN  /\ proc' = r.proc
           /\ disk' = r.file
           /\ ret' = r.ret
    /\ arg' = NoArg
    /\ UNCHANGED <<trainVars, serveVars, modelVars>>

\* DataProcessor.load(filepath) of the file save wrote, or of a foreign one.
Load(file) ==
    /\ LET r == load(proc, file)
       IN  /\ proc' = r.proc
           /\ ret' = r.ret
    /\ arg' = NoArg
    /\ UNCHANGED <<disk, trainVars, serveVars, modelVars>>

(***************************************************************************)
(* model.py : HealthRiskPredictor                                          *)
(*                                                                         *)
(* A tensor is its shape and one integer per index of its first dimension  *)
(* (the entries of one row of a weight matrix are equal).  A probability p *)
(* is held as the integer p * ProbScale, rounded to a tenth.               *)
(***************************************************************************)
ProbScale == 80
MaxInputRows == 1

\* The constructor's arguments; dropout is held in tenths.
ModelConfig(input_size, hidden_size, output_size, dropout, num_hidden_layers) ==
    [input_size |-> input_size, hidden_size |-> hidden_size, output_size |-> output_size,
     dropout |-> dropout, num_hidden_layers |-> num_hidden_layers]

Tensor(shape, v) == [shape |-> shape, v |-> v]
Fill(n, x) == [j \in 1..n |-> x]

\* The keys of state_dict(), as <<module, index, tensor>>: the parameters and
\* the BatchNorm buffers.
StateKeys(config) ==
    LET LinearKeys(module, i) == {<<module, i, t>> : t \in {"weight", "bias"}}
        BatchNormKeys(module, i) ==
            {<<module, i, t>> :
                t \in {"weight", "bias", "running_mean", "running_var",
                       "num_batches_tracked"}}
    IN  LinearKeys("input_layer", 0) \cup BatchNormKeys("input_bn", 0)
        \cup UNION {LinearKeys("hidden_layers", i) \cup BatchNormKeys("hidden_bns", i) :
                      i \in 0..(config.num_hidden_layers - 1)}
        \cup LinearKeys("output_layer", 0)

\* The shape of the tensor under key k (lines 55-67).
ShapeOf(config, k) ==
    LET out == IF k[1] = "output_layer" THEN config.output_size ELSE config.hidden_size
        in == IF k[1] = "input_layer" THEN config.input_size ELSE config.hidden_size
    IN  IF k[3] = "num_batches_tracked" THEN <<>>
        ELSE IF k[3] = "weight" /\ k[1] \in {"input_layer", "hidden_layers", "output_layer"}
        THEN <<out, in>>
        ELSE <<out>>
Rows(shape) == IF shape = <<>> THEN 1 ELSE shape[1]

\* nn.init.xavier_uniform_: a random draw, here decided by a seed.
xavier_uniform(seed, j) == IF (seed + j) % 2 = 0 THEN 1 ELSE 0 - 1

\* The tensor under key k after __init__ and _initialize_weights: Linear
\* weights drawn, Linear biases 0; BatchNorm weight 1, bias 0, running_mean 0,
\* running_var 1, num_batches_tracked 0.
InitialTensor(config, k, seed) ==
    LET shape == ShapeOf(config, k)
    IN  Tensor(shape,
               IF Len(shape) = 2 THEN [j \in 1..Rows(shape) |-> xavier_uniform(seed, j)]
               ELSE IF k[3] \in {"weight", "running_var"} THEN Fill(Rows(shape), 1)
               ELSE Fill(Rows(shape), 0))

NoModel ==
    [exists |-> FALSE, config |-> ModelConfig(0, 0, 0, 0, 0), state |-> <<>>,
     training |-> FALSE]

\* HealthRiskPredictor.__init__: a new module is in training mode.
HealthRiskPredictor(config, seed) ==
    [exists |-> TRUE, config |-> config,
     state |-> [k \in StateKeys(config) |-> InitialTensor(config, k, seed)],
     training |-> TRUE]

RECURSIVE SumSeq(_)
SumSeq(s) == IF s = <<>> THEN 0 ELSE Head(s) + SumSeq(Tail(s))

\* nn.Linear on one row of the batch.
Linear(st, module, i, x) ==
    LET w == st[<<module, i, "weight">>].v
        b == st[<<module, i, "bias">>].v
    IN  [j \in 1..Len(w) |-> w[j] * SumSeq(x) + b[j]]

\* nn.BatchNorm1d in eval mode, on one row: the running statistics are used
\* and not written.
BatchNormEval(st, module, i, z) ==
    LET g == st[<<module, i, "weight">>].v
        b == st[<<module, i, "bias">>].v
        running_mean == st[<<module, i, "running_mean">>].v
        running_var == st[<<module, i, "running_var">>].v
        sqrt(n) == CHOOSE r \in 0..n : r * r <= n /\ n < (r + 1) * (r + 1)
    IN  [j \in 1..Len(z) |->
           ((z[j] - running_mean[j]) \div sqrt(running_var[j])) * g[j] + b[j]]

\* torch.sigmoid of a logit, rounded to a tenth.
sigmoid(z) ==
    CASE z <= 0 - 3 -> 0
      [] z = 0 - 2 -> (1 * ProbScale) \div 10
      [] z = 0 - 1 -> (3 * ProbScale) \div 10
      [] z = 0 -> (5 * ProbScale) \div 10
      [] z = 1 -> (7 * ProbScale) \div 10
      [] z = 2 -> (9 * ProbScale) \div 10
      [] z >= 3 -> ProbScale

\* Lines 96-98 and 104-106 on one row: linear, normalization, relu.
Block(st, layer, bn, i, x) ==
    Bind(Linear(st, layer, i, x), LAMBDA a :
    Bind(BatchNormEval(st, bn, i, a), LAMBDA z :
    [j \in 1..Len(z) |-> Max(z[j], 0)]))

\* Lines 102-109: the first l hidden blocks in turn, each adding its input to
\* its result.
RECURSIVE HiddenBlocks(_, _, _)
HiddenBlocks(st, l, x) ==
    IF l = 0 THEN x
    ELSE Bind(HiddenBlocks(st, l - 1, x), LAMBDA residual :
         Bind(Block(st, "hidden_layers", "hidden_bns", l - 1, residual), LAMBDA y :
         [j \in 1..Len(y) |-> y[j] + residual[j]]))

\* HealthRiskPredictor.forward on one row, the module in eval mode (dropout
\* is the identity).
forward(m, x) ==
    Bind(Block(m.state, "input_layer", "input_bn", 0, x), LAMBDA x0 :
    Bind(HiddenBlocks(m.state, m.config.num_hidden_layers, x0), LAMBDA h :
    Bind(Linear(m.state, "output_layer", 0, h), LAMBDA o :
    [k \in 1..Len(o) |-> sigmoid(o[k])])))

\* An input batch: a tensor of shape (n, width).  nan is the set of rows that
\* hold a NaN entry (such an entry is written 0 in rows).
InputTensor(n, width, rows, nan) == [shape |-> <<n, width>>, rows |-> rows, nan |-> nan]

\* The outcome of a call on the module.  nan is the set of rows of proba that
\* are NaN: a NaN entry of a row passes through every layer of forward (the
\* linear layers, the normalizations, relu, the residual sums and sigmoid).
MRet(op, status) ==
    [op |-> op, status |-> status, x |-> InputTensor(0, 0, <<>>, {}), threshold |-> 0,
     proba |-> <<>>, nan |-> {}, out |-> <<>>]

\* HealthRiskPredictor.predict_proba: self.eval(), then forward under
\* no_grad.  The input layer raises on a width other than input_size.
predict_proba(m, x) ==
    LET e == [m EXCEPT !.training = FALSE]
    IN  IF x.shape[2] # m.config.input_size
        THEN [model |-> e, ret |-> [MRet("predict_proba", "RuntimeError") EXCEPT !.x = x]]
        ELSE LET proba == [i \in 1..x.shape[1] |->
                             Bind(x.rows[i], LAMBDA row : forward(e, row))]
             IN  [model |-> e,
                  ret |-> [MRet("predict_proba", "ok") EXCEPT
                             !.x = x, !.proba = proba, !.nan = x.nan, !.out = proba]]

\* HealthRiskPredictor.predict with `proba > threshold`.
model_predictAbove(m, x, threshold) ==
    LET p == predict_proba(m, x)
    IN  IF p.ret.status # "ok"
        THEN [model |-> p.model,
              ret |-> [p.ret EXCEPT !.op = "predict", !.threshold = threshold]]
        ELSE [model |-> p.model,
              ret |-> [p.ret EXCEPT
                         !.op = "predict", !.threshold = threshold,
                         !.out = [i \in 1..Len(p.ret.proba) |->
                                    [k \in 1..Len(p.ret.proba[i]) |->
                                       IF i \notin p.ret.nan /\ p.ret.proba[i][k] > threshold
                                       THEN 1 ELSE 0]]]]

\* HealthRiskPredictor.predict: (proba >= threshold).long(); a comparison
\* with NaN is False.
model_predict(m, x, threshold) ==
    LET p == predict_proba(m, x)
    IN  IF p.ret.status # "ok"
        THEN [model |-> p.model,
              ret |-> [p.ret EXCEPT !.op = "predict", !.threshold = threshold]]
        ELSE [model |-> p.model,
              ret |-> [p.ret EXCEPT
                         !.op = "predict", !.threshold = threshold,
                         !.out = [i \in 1..Len(p.ret.proba) |->
                                    [k \in 1..Len(p.ret.proba[i]) |->
                                       IF i \notin p.ret.nan /\ p.ret.proba[i][k] >= threshold
                                       THEN 1 ELSE 0]]]]

\* The checkpoint file: absent, unreadable, or holding the dict that
\* save_model hands to torch.save.
NoModelFile ==
    [state |-> "absent", model_state_dict |-> <<>>,
     model_config |-> ModelConfig(0, 0, 0, 0, 0)]
TruncatedModelFile == [NoModelFile EXCEPT !.state = "truncated"]

\* HealthRiskPredictor.save_model: torch.save writes the tensors' contents.
save_model(m) ==
    [state |-> "ok", model_state_dict |-> m.state, model_config |-> m.config]

\* nn.Module.load_state_dict (strict): the keys and the shapes must be the
\* module's own.
load_state_dict(m, sd) ==
    IF \/ DOMAIN sd # DOMAIN m.state
       \/ \E k \in DOMAIN sd : sd[k].shape # m.state[k].shape
    THEN [model |-> m, status |-> "RuntimeError"]
    ELSE [model |-> [m EXCEPT !.state = sd], status |-> "ok"]

\* HealthRiskPredictor.load_model without the load_state_dict call.
load_modelNoStateDict(file, seed) ==
    IF file.state = "absent"
    THEN [model |-> NoModel, status |-> "FileNotFoundError"]
    ELSE IF file.state = "truncated"
    THEN [model |-> NoModel, status |-> "UnpicklingError"]
    ELSE [model |-> [HealthRiskPredictor(file.model_config, seed) EXCEPT !.training = FALSE],
          status |-> "ok"]

\* HealthRiskPredictor.load_model: cls(...) with the saved configuration (its
\* weights drawn anew), load_state_dict, eval().
load_model(file, seed) ==
    IF file.state = "absent"
    THEN [model |-> NoModel, status |-> "FileNotFoundError"]
    ELSE IF file.state = "truncated"
    THEN [model |-> NoModel, status |-> "UnpicklingError"]
    ELSE LET r == load_state_dict(HealthRiskPredictor(file.model_config, seed),
                                  file.model_state_dict)
         IN  IF r.status # "ok"
             THEN [model |-> NoModel, status |-> r.status]
             ELSE [model |-> [r.model EXCEPT !.training = FALSE], status |-> "ok"]

(***************************************************************************)
(* model.py : the calls made on a HealthRiskPredictor, and their inputs    *)
(***************************************************************************)
Seeds == {0, 1}
\* A small network and one without hidden blocks.
ModelConfigs == {ModelConfig(2, 2, 4, 3, 1), ModelConfig(1, 1, 4, 3, 0)}

\* The tensors after training run t: optimizer.step() has written the
\* parameters and the BatchNorm forward passes the buffers.
TrainedState(config, t) ==
    [k \in StateKeys(config) |->
       LET shape == ShapeOf(config, k)
           n == Rows(shape)
       IN  Tensor(shape,
                  CASE Len(shape) = 2 -> [j \in 1..n |-> IF j % 2 = t % 2 THEN 1 ELSE 0]
                    [] k[3] = "bias" /\ k[1] = "output_layer" -> [j \in 1..n |-> j - t - 1]
                    [] k[3] = "running_mean" -> Fill(n, t - 1)
                    [] k[3] = "num_batches_tracked" -> Fill(n, t)
                    [] k[3] \in {"weight", "running_var"} -> Fill(n, 1)
                    [] OTHER -> Fill(n, 0))]

\* The batches of n rows, n up to MaxInputRows, as wide as the input layer of
\* one of ModelConfigs (and so too wide or too narrow for the other): rows of
\* finite entries, and rows whose first entry is NaN.
InputBatches ==
    UNION {{InputTensor(n, c.input_size,
                        [i \in 1..n |-> IF i \in nan THEN [rows[i] EXCEPT ![1] = 0]
                                        ELSE rows[i]],
                        nan) :
              rows \in [1..n -> [1..c.input_size -> {0 - 1, 1}]],
              nan \in SUBSET (1..n)} :
             n \in 0..MaxInputRows, c \in ModelConfigs}

NewModel(config, seed) ==
    /\ net' = HealthRiskPredictor(config, seed)
    /\ mret' = MRet("__init__", "ok")
    /\ UNCHANGED <<checkpoint, trainVars, procVars, serveVars>>

\* train_epoch on the instance: model.train(), and the parameters and buffers
\* are written.
TrainStep(t) ==
    /\ net.exists
    /\ net' = [net EXCEPT !.state = TrainedState(net.config, t), !.training = TRUE]
    /\ mret' = MRet("train_epoch", "ok")
    /\ UNCHANGED <<checkpoint, trainVars, procVars, serveVars>>

SaveModel ==
    /\ net.exists
    /\ checkpoint' = save_model(net)
    /\ mret' = MRet("save_model", "ok")
    /\ UNCHANGED <<net, trainVars, procVars, serveVars>>

LoadModel(seed) ==
    /\ LET r == load_model(checkpoint, seed)
       IN  /\ net' = IF r.status = "ok" THEN r.model ELSE net
           /\ mret' = MRet("load_model", r.status)
    /\ UNCHANGED <<checkpoint, trainVars, procVars, serveVars>>

\* predict_proba on the instance.
PredictProba(x) ==
    /\ net.exists
    /\ LET r == predict_proba(net, x)
       IN  /\ net' = r.model
           /\ mret' = r.ret
    /\ UNCHANGED <<checkpoint, trainVars, procVars, serveVars>>

ModelPredict(x, threshold) ==
    /\ net.exists
    /\ LET r == model_predict(net, x, threshold)
       IN  /\ net' = r.model
           /\ mret' = r.ret
    /\ UNCHANGED <<checkpoint, trainVars, procVars, serveVars>>

(***************************************************************************)
(* health_predictor.py : the serving layer                                 *)
(***************************************************************************)

\* config.py: settings.MAX_BATCH_SIZE
MAX_BATCH_SIZE == 1000
\* The number of entries of a batch that the model writes out one by one.
MaxBatch == 2

EmptyDict == [c \in {} |-> NaN]

\* Field(ge=..., le=...) of EnvironmentalData, HealthData and GenomicData.
FieldRange(c) ==
    CASE c \in {"pm25", "aqi", "precipitation"} -> <<0, 500>>
      [] c = "pm10" -> <<0, 1000>>
      [] c = "temperature" -> <<0 - 50, 60>>
      [] c \in {"humidity", "wind_speed"} -> <<0, 100>>
      [] c = "uv_index" -> <<0, 15>>
      [] c \in {"ozone", "genetic_risk_score"} -> <<0, 1>>
      [] c \in {"no2", "so2"} -> <<0, 200>>
      [] c = "co" -> <<0, 50>>
      [] c = "age" -> <<0, 120>>
      [] c = "bmi" -> <<10, 60>>
      [] c = "heart_rate" -> <<30, 200>>
      [] c = "blood_pressure_systolic" -> <<60, 250>>
      [] c = "blood_pressure_diastolic" -> <<40, 150>>
      [] c \in {"has_asthma", "has_copd", "has_heart_disease", "has_diabetes", "smoker"}
            -> <<0, 1>>
      [] c = "exercise_frequency" -> <<0, 7>>
      [] c \in {"gene_variant_1", "gene_variant_2", "gene_variant_3", "gene_variant_4",
                "gene_variant_5"} -> <<0, 2>>

\* The fields whose default is 0 and not None.
ZeroDefaults ==
    {"has_asthma", "has_copd", "has_heart_disease", "has_diabetes", "smoker",
     "exercise_frequency"} \cup Range(GENOMIC_FEATURES)

\* A PredictionInput: each group holds the fields the request body gave.
PredictionInput(environmental, health, genomic, user_id, location_id) ==
    [environmental |-> environmental, health |-> health, genomic |-> genomic,
     user_id |-> user_id, location_id |-> location_id]

\* Pydantic's validation of one group with the le= bounds not enforced.
GroupValidatesNoUpper(group, fields) ==
    /\ DOMAIN group \subseteq Range(fields)
    /\ \A c \in DOMAIN group :
         /\ ~group[c].nan
         /\ FieldRange(c)[1] * FP <= group[c].v

\* Pydantic's validation of one group of a request body.
GroupValidates(group, fields) ==
    /\ DOMAIN group \subseteq Range(fields)
    /\ \A c \in DOMAIN group :
         /\ ~group[c].nan
         /\ FieldRange(c)[1] * FP <= group[c].v
         /\ group[c].v <= FieldRange(c)[2] * FP

\* Pydantic's validation of a PredictionInput.
Validates(pi) ==
    /\ GroupValidates(pi.environmental, ENVIRONMENTAL_FEATURES)
    /\ GroupValidates(pi.health, HEALTH_FEATURES)
    /\ pi.genomic.some => GroupValidates(pi.genomic.v, GENOMIC_FEATURES)

\* group.dict(exclude_none=True): the given fields and the zero defaults, in
\* the order the fields are declared.
GroupDict(group, fields) ==
    LET keys == SelectSeq(fields, LAMBDA c : c \in DOMAIN group \cup ZeroDefaults)
    IN  [keys |-> keys,
         row |-> [c \in Range(keys) |-> IF c \in DOMAIN group THEN group[c] ELSE Float(0)]]

\* prepare_input_data: the dict, as the one-row frame pd.DataFrame([data]).
prepare_input_data(pi) ==
    LET e == GroupDict(pi.environmental, ENVIRONMENTAL_FEATURES)
        h == GroupDict(pi.health, HEALTH_FEATURES)
        g == IF pi.genomic.some THEN GroupDict(pi.genomic.v, GENOMIC_FEATURES)
             ELSE [keys |-> <<>>, row |-> EmptyDict]
    IN  Frame(e.keys \o h.keys \o g.keys, <<e.row @@ h.row @@ g.row>>)

\* generate_cache_key: the digest of the dict dumped with sorted keys; two
\* dicts get one key exactly when they hold the same items.
generate_cache_key(data) == data.rows[1]

\* A response: the status; detail, the fixed text of an error's detail, and
\* exception, the str(e) that follows it in the detail sent to the caller
\* ("" when the detail holds none); the body of a success; the collaborators
\* the handler called on the way; and what the handler logged.
Response(endpoint, status, touched) ==
    [endpoint |-> endpoint, status |-> status, detail |-> "", exception |-> "",
     body |-> None, touched |-> touched, logged |-> {}]

\* The module globals before start-up.
NoService == [started |-> FALSE, model |-> None, processor |-> None, redis_client |-> FALSE]

\* load_model_and_processor, then connect_redis with the given outcome.  An
\* exception of either load sets both globals to None.
load_model_and_processor(f, redis_up, seed) ==
    LET p == load(NoProcessor, f.processor)
        m == load_model(f.model, seed)
        raised == \/ (f.processor.state # "absent" /\ p.ret.status # "ok")
                  \/ (f.model.state # "absent" /\ m.status # "ok")
    IN  [started |-> TRUE,
         model |-> IF raised \/ f.model.state = "absent" THEN None ELSE Some(m.model),
         processor |-> IF raised \/ f.processor.state = "absent" THEN None ELSE Some(p.proc),
         redis_client |-> redis_up]

\* `if not model or not processor` with `and` for `or`.
NotLoadedBoth(s) == ~s.model.some /\ ~s.processor.some

\* The test `not model or not processor` of both handlers.
NotLoaded(s) == ~s.model.some \/ ~s.processor.some

\* HealthRiskOutput.compute_risk_level
compute_risk_level(overall_risk) ==
    IF 10 * overall_risk < 3 * ProbScale THEN "low"
    ELSE IF 10 * overall_risk < 5 * ProbScale THEN "moderate"
    ELSE IF 10 * overall_risk < 7 * ProbScale THEN "high"
    ELSE "critical"

\* The fields of HealthRiskOutput; each is declared Field(...), so each is
\* required.
RiskFields ==
    <<"asthma_risk", "heatstroke_risk", "cardiovascular_risk", "respiratory_risk",
      "overall_risk", "risk_level">>

\* HealthRiskOutput(**given): a required field that is not given is a
\* validation error, and a field that is not given is not handed to its
\* validator; a score outside [0, 1] is a validation error; the validator of
\* risk_level replaces a given value.
HealthRiskOutput(given) ==
    IF \E f \in Range(RiskFields) : f \notin DOMAIN given
    THEN [status |-> "ValidationError", v |-> given]
    ELSE IF \E f \in Range(RiskFields) \ {"risk_level"} : given[f] < 0 \/ given[f] > ProbScale
    THEN [status |-> "ValidationError", v |-> given]
    ELSE [status |-> "ok",
          v |-> [given EXCEPT !.risk_level = compute_risk_level(given.overall_risk)]]

\* Lines 405-411 and 474-480: the keyword arguments the handlers give to
\* HealthRiskOutput, from one row of the model's output.
RiskArguments(risks) ==
    [asthma_risk |-> risks[1], heatstroke_risk |-> risks[2],
     cardiovascular_risk |-> risks[3], respiratory_risk |-> risks[4],
     overall_risk |-> SumSeq(risks) \div Len(risks)]

\* PredictionOutput; timestamp and model_version are not read by any step.
PredictionOutput(risks, user_id, location_id) ==
    [risks |-> risks, user_id |-> user_id, location_id |-> location_id]

\* torch.FloatTensor(X) for the array transform returned.  The processor
\* state holds no statistics, so the entries are written 0, a cell at its
\* column's centre.
FloatTensor(r) ==
    InputTensor(r.rows, r.width, [i \in 1..r.rows |-> Fill(r.width, 0)], {})

\* get_cached_prediction without its try block: an error of Redis reaches
\* the handler.
get_cached_predictionRaising(s, c, cache_key, get_ok) ==
    IF ~s.redis_client THEN [status |-> "ok", cached |-> None, logged |-> {}]
    ELSE IF ~get_ok THEN [status |-> "ConnectionError", cached |-> None, logged |-> {}]
    ELSE IF cache_key \in DOMAIN c
    THEN [status |-> "ok", cached |-> Some(c[cache_key]), logged |-> {}]
    ELSE [status |-> "ok", cached |-> None, logged |-> {}]

\* get_cached_prediction: None without a client, on an error of Redis (which
\* is logged) and on a miss.
get_cached_prediction(s, c, cache_key, get_ok) ==
    IF ~s.redis_client THEN [status |-> "ok", cached |-> None, logged |-> {}]
    ELSE IF ~get_ok
    THEN [status |-> "ok", cached |-> None, logged |-> {"Error reading from cache"}]
    ELSE IF cache_key \in DOMAIN c
    THEN [status |-> "ok", cached |-> Some(c[cache_key]), logged |-> {}]
    ELSE [status |-> "ok", cached |-> None, logged |-> {}]

\* cache_prediction: setex under the key; nothing without a client or on an
\* error of Redis (which is logged).
cache_prediction(s, c, cache_key, prediction, set_ok) ==
    IF ~s.redis_client THEN c
    ELSE IF ~set_ok THEN c
    ELSE (cache_key :> prediction) @@ c

\* POST /predict, after validation.  An exception raised inside the try block
\* becomes a 500 whose detail carries str(e).
predict(s, c, pi, get_ok, set_ok) ==
    IF NotLoaded(s)
    THEN [svc |-> s, cache |-> c,
          resp |-> [Response("/predict", 503, {}) EXCEPT
                      !.detail = "Model or processor not loaded"]]
    ELSE LET input_data == prepare_input_data(pi)
             cache_key == generate_cache_key(input_data)
             seen == IF s.redis_client THEN {"cache"} ELSE {}
             Failed(e, touched, logged) ==
                 [svc |-> s, cache |-> c,
                  resp |-> [Response("/predict", 500, touched) EXCEPT
                              !.detail = "Prediction failed: ", !.exception = e,
                              !.logged = logged \cup {"Error during prediction"}]]
         IN  Bind(get_cached_prediction(s, c, cache_key, get_ok), LAMBDA lookup :
             IF lookup.status # "ok"
             THEN Failed(lookup.status, seen, lookup.logged)
             ELSE IF lookup.cached.some
             THEN Bind(HealthRiskOutput(lookup.cached.v.risks), LAMBDA risks :
                  IF risks.status # "ok"
                  THEN Failed(risks.status, seen, lookup.logged)
                  ELSE [svc |-> s, cache |-> c,
                        resp |-> [Response("/predict", 200, seen) EXCEPT
                                    !.logged = lookup.logged,
                                    !.body = Some([lookup.cached.v EXCEPT
                                                     !.risks = risks.v])]])
             ELSE IF ~s.processor.some
             THEN Failed("AttributeError", seen, lookup.logged)
             ELSE Bind(prepare_input(s.processor.v, input_data), LAMBDA pr :
             IF pr.ret.status # "ok"
             THEN Failed(pr.ret.status, seen \cup {"processor"}, lookup.logged)
             ELSE Bind(transform(s.processor.v, pr.ret.frame), LAMBDA tr :
             IF tr.ret.status # "ok"
             THEN Failed(tr.ret.status, seen \cup {"processor"}, lookup.logged)
             ELSE IF ~s.model.some
             THEN Failed("AttributeError", seen \cup {"processor"}, lookup.logged)
             ELSE Bind(predict_proba(s.model.v, FloatTensor(tr.ret)), LAMBDA predictions :
             IF predictions.ret.status # "ok"
             THEN Failed(predictions.ret.status, seen \cup {"processor", "model"}, lookup.logged)
             ELSE Bind(HealthRiskOutput(RiskArguments(predictions.ret.proba[1])),
                       LAMBDA health_risks :
             IF health_risks.status # "ok"
             THEN Failed(health_risks.status, seen \cup {"processor", "model"}, lookup.logged)
             ELSE Bind(PredictionOutput(health_risks.v, pi.user_id, pi.location_id),
                       LAMBDA result :
                  [svc |-> s,
                   cache |-> cache_prediction(s, c, cache_key, result, set_ok),
                   resp |-> [Response("/predict", 200, seen \cup {"processor", "model"})
                               EXCEPT !.logged = lookup.logged,
                                      !.body = Some(result)]]))))))

\* The column labels of pd.DataFrame(dicts): the keys in order of first
\* appearance, over the first k dicts.
AppendNew(before, keys) == before \o SelectSeq(keys, LAMBDA c : c \notin Range(before))
RECURSIVE FirstAppearance(_, _)
FirstAppearance(dicts, k) ==
    IF k = 0 THEN <<>>
    ELSE AppendNew(FirstAppearance(dicts, k - 1), dicts[k].cols)

\* pd.DataFrame(dicts): one row per dict, NaN where a dict lacks a key.
DataFrame(dicts) ==
    LET cols == FirstAppearance(dicts, Len(dicts))
    IN  Frame(cols,
              [i \in 1..Len(dicts) |->
                 [c \in Range(cols) |->
                    IF Has(dicts[i], c) THEN dicts[i].rows[1][c] ELSE NaN]])

\* POST /predict/batch, after validation.
predict_batch(s, c, batch_input) ==
    IF NotLoaded(s)
    THEN [svc |-> s, cache |-> c,
          resp |-> [Response("/predict/batch", 503, {}) EXCEPT
                      !.detail = "Model or processor not loaded"]]
    ELSE LET inputs == batch_input.predictions
             input_data_list == [i \in 1..Len(inputs) |-> prepare_input_data(inputs[i])]
             Failed(e, touched) ==
                 [svc |-> s, cache |-> c,
                  resp |-> [Response("/predict/batch", 500, touched) EXCEPT
                              !.detail = "Batch prediction failed: ", !.exception = e,
                              !.logged = {"Error during batch prediction"}]]
         IN  IF ~s.processor.some
             THEN Failed("AttributeError", {})
             ELSE Bind(s.processor.v.feature_names, LAMBDA feature_names :
             IF ~feature_names.some
             THEN Failed("TypeError", {"processor"})
             ELSE Bind(transform(s.processor.v,
                                 Select(NaNFill(DataFrame(input_data_list), feature_names.v),
                                        feature_names.v)),
                       LAMBDA tr :
             IF tr.ret.status # "ok"
             THEN Failed(tr.ret.status, {"processor"})
             ELSE IF ~s.model.some
             THEN Failed("AttributeError", {"processor"})
             ELSE Bind(predict_proba(s.model.v, FloatTensor(tr.ret)),
                       LAMBDA batch_predictions :
             IF batch_predictions.ret.status # "ok"
             THEN Failed(batch_predictions.ret.status, {"processor", "model"})
             ELSE Bind([i \in 1..Len(inputs) |->
                          HealthRiskOutput(RiskArguments(batch_predictions.ret.proba[i]))],
                       LAMBDA health_risks :
             IF \E i \in 1..Len(inputs) : health_risks[i].status # "ok"
             THEN Failed("ValidationError", {"processor", "model"})
             ELSE [svc |-> s,
                   cache |-> c,
                   resp |-> [Response("/predict/batch", 200, {"processor", "model"}) EXCEPT
                               !.body = Some([predictions |->
                                                [i \in 1..Len(inputs) |->
                                                   PredictionOutput(health_risks[i].v,
                                                                    inputs[i].user_id,
                                                                    inputs[i].location_id)],
                                              total_count |-> Len(inputs)])]]))))

(***************************************************************************)
(* health_predictor.py : requests, artifacts and the steps of the service  *)
(***************************************************************************)

\* Request bodies: the minimal record, one with no field given (sent in
\* batches), one with pm25 above its range and one with bmi below its range.
MinimalRecord ==
    PredictionInput(("pm25" :> Float(35)) @@ ("temperature" :> Float(28)),
                    ("age" :> Float(45)), None, "", "")
OutOfRangeRecord == PredictionInput(("pm25" :> Float(600)), EmptyDict, None, "", "")
Requests ==
    {[r EXCEPT !.user_id = u, !.location_id = l] :
        r \in {MinimalRecord, OutOfRangeRecord,
                PredictionInput(EmptyDict, ("bmi" :> Float(5)), None, "", "")},
        u \in {"u1", "u2"}, l \in {"home"}}

\* Batch bodies: count is the length of the list and predictions holds its
\* entries: lists of valid entries, a list with an entry out of range, and a
\* list longer than the ceiling, of which predictions holds the leading
\* MaxBatch entries.
BatchEntries ==
    {[MinimalRecord EXCEPT !.user_id = "u1", !.location_id = "home"],
     PredictionInput(EmptyDict, EmptyDict, Some(EmptyDict), "u2", "home")}
Batches ==
    UNION {{[predictions |-> s, count |-> k] : s \in [1..k -> BatchEntries]} :
           k \in 0..MaxBatch}
    \cup {[predictions |-> <<[OutOfRangeRecord EXCEPT !.user_id = "u1"]>>, count |-> 1]}
    \cup {[predictions |-> [i \in 1..MaxBatch |-> e], count |-> MAX_BATCH_SIZE + 1] :
            e \in BatchEntries}

\* The tables main is run on, and the processor main fits on one (lines 470-477).
TrainingTables == TablesOf({MinimalCols}, 1, 1)
TrainedProcessor(X) ==
    fit_transform(Init__(NoProcessor, "standard", "knn", TRUE).proc, X,
                  Some(TARGET_CONDITIONS))

\* settings.MODEL_HIDDEN_SIZE and settings.MODEL_DROPOUT (in tenths), as set
\* in the environment of main.
MODEL_HIDDEN_SIZE == 2
MODEL_DROPOUT == 3

\* The model main builds and trains (lines 518-532): input_size is the width
\* of the processed matrix, output_size the number of target columns, and
\* num_hidden_layers the constructor's default.
TrainedModel(input_size) ==
    LET config == ModelConfig(input_size, MODEL_HIDDEN_SIZE,
                              Len(TARGET_CONDITIONS), MODEL_DROPOUT, 3)
    IN  [HealthRiskPredictor(config, 0) EXCEPT !.state = TrainedState(config, 1)]

\* main of train_model.py up to processor.save (lines 470-484).
SaveProcessorArtifact(X) ==
    /\ \E r \in {TrainedProcessor(X)} :
         /\ r.ret.status = "ok"
         /\ files' = [files EXCEPT !.processor = Pickle(r.proc)]
    /\ UNCHANGED <<svc, cache, resp, trainVars, procVars, modelVars>>

\* main of train_model.py at model.save_model (lines 518-536), reached by a
\* run whose processor.save (line 484) wrote the processor file now on disk.
SaveModelArtifact(X) ==
    /\ \E r \in {TrainedProcessor(X)} :
         /\ r.ret.status = "ok"
         /\ files.processor = Pickle(r.proc)
         /\ files' = [files EXCEPT !.model = save_model(TrainedModel(r.ret.width))]
    /\ UNCHANGED <<svc, cache, resp, trainVars, procVars, modelVars>>

\* A file that load cannot read is put in place of an artifact, or the
\* processor file is not deployed with the model file.
DamageArtifact ==
    /\ \E f \in {[files EXCEPT !.model = TruncatedModelFile],
                  [files EXCEPT !.processor = NoFile]}
               \cup {[files EXCEPT !.processor = p] : p \in ForeignPickles} :
         files' = f
    /\ UNCHANGED <<svc, cache, resp, trainVars, procVars, modelVars>>

\* lifespan, start-up: load_model_and_processor, then connect_redis.
Startup(redis_up, seed) ==
    /\ ~svc.started
    /\ svc' = load_model_and_processor(files, redis_up, seed)
    /\ UNCHANGED <<files, cache, resp, trainVars, procVars, modelVars>>

\* lifespan, shutdown: the process and its globals end.
Shutdown ==
    /\ svc.started
    /\ svc' = NoService
    /\ UNCHANGED <<files, cache, resp, trainVars, procVars, modelVars>>

\* POST /predict: the body is validated before the handler runs.  get_ok and
\* set_ok: whether Redis answers the get and the setex of this request.
Predict(pi, get_ok, set_ok) ==
    /\ svc.started
    /\ IF ~Validates(pi)
       THEN /\ resp' = Response("/predict", 422, {})
            /\ UNCHANGED <<svc, cache>>
       ELSE LET r == predict(svc, cache, pi, get_ok, set_ok)
            IN  /\ svc' = r.svc
                /\ cache' = r.cache
                /\ resp' = r.resp
    /\ UNCHANGED <<files, trainVars, procVars, modelVars>>

\* POST /predict/batch: max_items and validate_batch_size reject a list
\* longer than the ceiling, and every entry is validated.
PredictBatch(batch_input) ==
    /\ svc.started
    /\ IF \/ batch_input.count > MAX_BATCH_SIZE
          \/ \E i \in 1..Len(batch_input.predictions) : ~Validates(batch_input.predictions[i])
       THEN /\ resp' = Response("/predict/batch", 422, {})
            /\ UNCHANGED <<svc, cache>>
       ELSE LET r == predict_batch(svc, cache, batch_input)
            IN  /\ svc' = r.svc
                /\ cache' = r.cache
                /\ resp' = r.resp
    /\ UNCHANGED <<files, trainVars, procVars, modelVars>>

\* The state before any call: train_model not entered, no DataProcessor
\* instance, no artifact on disk, the service not started, an empty cache.
Init ==
    /\ tpc = "idle"
    /\ epoch = 0
    /\ num_epochs = 0
    /\ val_loss = 0
    /\ tensors = [i \in TensorIds |-> 0]
    /\ early_stopping = EarlyStoppingInit(0, 0, "min")
    /\ scheduler = SchedulerInit
    /\ history = <<>>
    /\ cv = [pc |-> "idle", n_folds |-> 0, fold |-> 0, fold_results |-> <<>>]
    /\ proc = NoProcessor
    /\ disk = NoFile
    /\ arg = NoArg
    /\ ret = Ret("", "ok")
    /\ files = [processor |-> NoFile, model |-> NoModelFile]
    /\ svc = NoService
    /\ cache = EmptyDict
    /\ resp = Response("", 0, {})
    /\ net = NoModel
    /\ checkpoint = NoModelFile
    /\ mret = MRet("", "ok")

ServeNext ==
    \/ \E X \in TrainingTables : SaveProcessorArtifact(X)
    \/ \E X \in TrainingTables : SaveModelArtifact(X)
    \/ DamageArtifact
    \/ \E redis_up \in BOOLEAN, seed \in Seeds : Startup(redis_up, seed)
    \/ Shutdown
    \/ \E pi \in Requests, get_ok \in BOOLEAN, set_ok \in BOOLEAN : Predict(pi, get_ok, set_ok)
    \/ \E batch_input \in Batches : PredictBatch(batch_input)

SpecServe == Init /\ [][ServeNext]_vars

ProcNext ==
    \/ \E c \in Configs : Construct(c)
    \/ \E X \in Tables, y \in Targets : Fit(X, y)
    \/ \E X \in Tables, y \in Targets : FitTransform(X, y)
    \/ \E X \in Tables : Transform(X)
    \/ InverseTransform
    \/ GetFeatureNames
    \/ \E data \in TablesOf(Schemas \cup {<<>>}, 1, 1) : PrepareInput(data)
    \/ \E X \in Tables : EngineerFeatures(X)
    \/ EngineerAgain

SpecProc == Init /\ [][ProcNext]_vars

\* The life cycle with the pickle file, on the tables of one schema.
PersistTables == TablesOf({MinimalCols}, 0, MaxRows)

PersistNext ==
    \/ \E c \in Configs : Construct(c)
    \/ \E X \in PersistTables, y \in Targets : Fit(X, y)
    \/ \E X \in PersistTables, y \in Targets : FitTransform(X, y)
    \/ \E X \in PersistTables : Transform(X)
    \/ InverseTransform
    \/ GetFeatureNames
    \/ \E data \in TablesOf({FixtureCols}, 1, 1) : PrepareInput(data)
    \/ Save
    \/ \E file \in {disk} \cup ForeignPickles : Load(file)

SpecPersist == Init /\ [][PersistNext]_vars

TrainNext ==
    \/ StartTraining
    \/ TrainEpoch
    \/ ValidateEpoch
    \/ SchedulerStep
    \/ HistoryAppend
    \/ EarlyStoppingCheck
    \/ LoadBestModel
    \/ Return
    \/ \E n_folds \in 1..MaxFolds, rows \in 1..MaxFolds : CrossValidate(n_folds, rows)
    \/ FoldResult

SpecTrain == Init /\ [][TrainNext]_vars

\* An EarlyStopping instance on its own: any patience, a min_delta below, at
\* or above 0 (the constructor takes any float), either mode, and any sequence
\* of scores.
StopNext ==
    \/ \E patience \in 0..(MaxPatience + 1), min_delta \in {-2, 0, 1}, mode \in {"min", "max"} :
         NewEarlyStopping(patience, min_delta, mode)
    \/ \E score \in 0..MaxLoss : CallEarlyStopping(score)

SpecStop == Init /\ [][StopNext]_vars

\* The calls on a HealthRiskPredictor; a batch is as wide as input_size, or
\* one column wider.  The thresholds are the default 0.5, and 0.7.
ModelNext ==
    \/ \E config \in ModelConfigs, seed \in Seeds : NewModel(config, seed)
    \/ \E t \in {1, 2} : TrainStep(t)
    \/ SaveModel
    \/ \E seed \in Seeds : LoadModel(seed)
    \/ \E x \in InputBatches : PredictProba(x)
    \/ \E x \in InputBatches, threshold \in {(5 * ProbScale) \div 10, (7 * ProbScale) \div 10} :
         ModelPredict(x, threshold)

SpecModel == Init /\ [][ModelNext]_vars

(***************************************************************************)
(* Properties                                                              *)
(***************************************************************************)

\* The epoch of the best validation loss of a history: the last epoch whose
\* loss is below the loss of every earlier epoch (min_delta is 0).
BestEpoch(h) ==
    CHOOSE e \in 1..Len(h) :
        /\ \A j \in 1..(e - 1) : h[e].val_loss < h[j].val_loss
        /\ \A k \in (e + 1)..Len(h) : \E j \in 1..(k - 1) : h[k].val_loss >= h[j].val_loss

\* C1: when train_model returns, every tensor of the model holds the weights
\* the model had at the end of the epoch with the best validation loss.
C1_ReturnsBestEpochWeights ==
    (tpc = "done" /\ history # <<>>) =>
        \A i \in TensorIds : tensors[i] = BestEpoch(history)

\* C1, the case: train_model has returned after an epoch that did not improve.
C1_ReturnedAfterWorseEpoch ==
    /\ tpc = "done"
    /\ Len(history) >= 2
    /\ BestEpoch(history) < Len(history)

\* C2 as stated: the loop never runs an epoch beyond e + patience, e the last
\* improving epoch.
C2_HaltsByPatience ==
    history # <<>> => Len(history) <= BestEpoch(history) + early_stopping.patience

\* C2, amended: the loop never runs an epoch beyond e + max(patience, 1), e
\* the last improving epoch, and it leaves the loop as soon as early_stop is set.
C2_HaltsByPatienceOrOne ==
    /\ history # <<>> =>
         Len(history) <= BestEpoch(history) + Max(early_stopping.patience, 1)
    /\ early_stopping.early_stop => tpc \in {"load_best_model", "done", "idle"}

\* C2, the case: early stopping ended the loop before num_epochs, with
\* patience 0, one epoch after the last improving one.
C2_StoppedEarlyPatienceZero ==
    /\ early_stopping.early_stop
    /\ early_stopping.patience = 0
    /\ Len(history) < num_epochs
    /\ Len(history) = BestEpoch(history) + 1

\* C3: on a processor that is not fitted, transform, inverse_transform,
\* get_feature_names and prepare_input each fail with ValueError.
C3_UnfittedCallsRefused ==
    (/\ proc.exists
     /\ ~proc.is_fitted
     /\ ret.op \in {"transform", "inverse_transform", "get_feature_names", "prepare_input"})
        => ret.status = "ValueError"

\* C3, the case: prepare_input has returned a table on an unfitted processor.
C3_UnfittedPrepareInputReturns ==
    /\ proc.exists
    /\ ~proc.is_fitted
    /\ ret.op = "prepare_input"
    /\ ret.status = "ok"

\* C4: while the service runs with the model or the processor not loaded,
\* every valid /predict and /predict/batch request is answered 503, no
\* response other than 503 and 422 is given, no step writes the cache or the
\* globals, and no handler calls the cache, the processor or the model; and a
\* handler calls one of them only with both loaded.
C4_RequiresBothLoaded ==
    [][/\ (svc.started /\ svc'.started /\ (~svc.model.some \/ ~svc.processor.some)) =>
            /\ svc' = svc
            /\ \A k \in DOMAIN cache' : k \in DOMAIN cache /\ cache'[k] = cache[k]
            /\ resp' # resp => (resp'.status \in {503, 422} /\ resp'.touched = {})
            /\ \A pi \in Requests :
                 \A get_ok \in BOOLEAN, set_ok \in BOOLEAN :
                     (Validates(pi) /\ Predict(pi, get_ok, set_ok)) => resp'.status = 503
            /\ \A batch_input \in Batches :
                 (/\ batch_input.count <= MAX_BATCH_SIZE
                  /\ \A i \in 1..Len(batch_input.predictions) :
                       Validates(batch_input.predictions[i])
                  /\ PredictBatch(batch_input)) => resp'.status = 503
       /\ (resp' # resp /\ resp'.touched # {}) =>
            (svc.model.some /\ svc.processor.some)]_vars

\* C4, the case: a request was answered 503 with the model loaded and the
\* processor not.
C4_Answered503ModelOnly ==
    /\ svc.started
    /\ svc.model.some
    /\ ~svc.processor.some
    /\ resp.status = 503
    /\ resp.endpoint = "/predict"

\* C5: a transform that returns has handed the imputer the fitted columns in
\* fitted order, and returns as many rows as its input and as many columns as
\* fitted_feature_names lists.
C5_TransformShape ==
    (proc.is_fitted /\ ret.op = "transform" /\ ret.status = "ok") =>
        /\ ret.frame.cols = proc.fitted_feature_names.v
        /\ ret.rows = arg.rows
        /\ ret.width = Len(proc.fitted_feature_names.v)

\* C5, the case: transform returned fewer columns than fitted_feature_names
\* lists.
C5_TransformNarrower ==
    /\ proc.is_fitted
    /\ ret.op = "transform"
    /\ ret.status = "ok"
    /\ ret.width < Len(proc.fitted_feature_names.v)

\* C6: transform of a table (of at least one row) that lacks fitted columns
\* after feature engineering does not fail; the lacking columns are 0 in every
\* row of the frame handed to the imputer, and the others keep their cells.
C6_MissingColumnsZeroFilled ==
    LET X == IF proc.feature_engineering THEN engineer_features(arg.frame) ELSE arg.frame
        fitted == Range(proc.fitted_feature_names.v)
    IN  (/\ proc.is_fitted
         /\ ret.op = "transform"
         /\ arg.rows >= 1
         /\ fitted \ Range(X.cols) # {})
            => /\ ret.status = "ok"
               /\ \A i \in 1..arg.rows :
                    \A c \in fitted :
                        ret.frame.rows[i][c] =
                            IF c \in Range(X.cols) THEN X.rows[i][c] ELSE Float(0)

\* C6, the case: transform raised on a table lacking fitted columns.
C6_MissingColumnsRaise ==
    /\ proc.is_fitted
    /\ ret.op = "transform"
    /\ arg.rows >= 1
    /\ ret.status = "ValueError"
    /\ Range(proc.fitted_feature_names.v) \ Range(arg.frame.cols) # {}
    /\ proc.imputer.cols # proc.fitted_feature_names.v

\* C7: _engineer_features keeps the input columns and their cells, and adds a
\* derived column exactly when the input columns include its prerequisites
\* (whatever the rows hold); applied to its own output it returns that output,
\* columns and cells.
C7_EngineerFeaturesIdempotent ==
    LET given == Range(arg.frame.cols)
        got == Range(ret.frame.cols)
        AllOf(d) ==
            CASE d = "pm25_aqi_interaction" -> {"pm25", "aqi"}
              [] d = "heat_index" -> {"temperature", "humidity"}
              [] d \in {"temp_squared", "extreme_heat", "extreme_cold"} -> {"temperature"}
              [] d \in {"age_squared", "elderly", "child"} -> {"age"}
              [] d \in {"obese", "underweight"} -> {"bmi"}
              [] d \in {"hypertension", "pulse_pressure"} ->
                    {"blood_pressure_systolic", "blood_pressure_diastolic"}
              [] d = "lifestyle_risk" -> {"smoker", "exercise_frequency"}
              [] d = "exposure_vulnerability" -> {"pm25", "age"}
              [] OTHER -> {}
        AnyOf(d) ==
            CASE d = "air_quality_composite" -> {"pm25", "pm10", "ozone", "no2", "so2", "co"}
              [] d = "comorbidity_count" ->
                    {"has_asthma", "has_copd", "has_heart_disease", "has_diabetes"}
              [] OTHER -> {}
        Due(d) == IF AnyOf(d) = {} THEN AllOf(d) \subseteq given
                  ELSE AnyOf(d) \cap given # {}
    IN  /\ ret.op \in {"_engineer_features", "_engineer_features again"} =>
            /\ got = given \cup {d \in Range(DerivedColumns) : Due(d)}
            /\ Len(ret.frame.cols) = Cardinality(got)
            /\ ret.rows = arg.rows
            /\ \A i \in 1..arg.rows :
                 \A c \in given \ Range(DerivedColumns) :
                     ret.frame.rows[i][c] = arg.frame.rows[i][c]
        /\ ret.op = "_engineer_features again" => ret.frame = arg.frame

\* C7, the case: _engineer_features was applied to its own output, a table
\* with rows and derived columns, one of them NaN.
C7_EngineeredTwice ==
    /\ ret.op = "_engineer_features again"
    /\ ret.rows >= 1
    /\ Has(ret.frame, "exposure_vulnerability")
    /\ ret.frame.rows[1]["exposure_vulnerability"].nan
    /\ Has(ret.frame, "pulse_pressure") \/ Has(ret.frame, "heat_index")

\* C8: on a fitted processor, a transform, inverse_transform, prepare_input,
\* get_feature_names or save call leaves is_fitted, the column lists, the
\* target names, the imputer and the scaler as they were.
C8_FittedStateFrozen ==
    [][(/\ proc.is_fitted
        /\ <<proc, disk, arg, ret>> # <<proc', disk', arg', ret'>>
        /\ ret'.op \in {"transform", "inverse_transform", "prepare_input",
                        "get_feature_names", "save"})
          => /\ proc'.is_fitted
             /\ proc'.feature_names = proc.feature_names
             /\ proc'.fitted_feature_names = proc.fitted_feature_names
             /\ proc'.target_names = proc.target_names
             /\ proc'.imputer = proc.imputer
             /\ proc'.scaler = proc.scaler]_vars

\* C8, the case: a fitted processor has been saved and has transformed a
\* table since.
C8_SavedThenTransformed ==
    /\ proc.is_fitted
    /\ disk.state = "pickle"
    /\ disk.data.is_fitted
    /\ ret.op = "transform"
    /\ ret.status = "ok"

\* C9: every processor instance has a supported scaler kind and a supported
\* imputer kind, and a construction or a load with another kind raises
\* ValueError and leaves the caller with the instance it had.
C9_OnlySupportedKinds ==
    /\ [](proc.exists =>
            /\ proc.scaler_type \in {"standard", "robust"}
            /\ proc.imputer_type \in {"simple", "knn"}
            /\ proc.scaler.kind \in {"StandardScaler", "RobustScaler"}
            /\ proc.imputer.kind \in {"SimpleImputer", "KNNImputer"})
    /\ [][/\ \A c \in Configs :
               (/\ c[1] \notin {"standard", "robust"} \/ c[2] \notin {"simple", "knn"}
                /\ Construct(c))
                  => (ret'.status = "ValueError" /\ proc' = proc)
          /\ \A file \in ForeignPickles :
               Load(file) => (ret'.status = "ValueError" /\ proc' = proc)]_vars

\* C9, the case: load has refused a pickle with an unsupported kind while an
\* instance existed.
C9_LoadRefused ==
    /\ ret.op = "load"
    /\ ret.status = "ValueError"
    /\ proc.exists

\* C10: on a fitted processor prepare_input returns one row over exactly
\* feature_names, in that order; a key of the mapping keeps its value, a
\* column the mapping lacks is NaN.
C10_PrepareInputShape ==
    (proc.is_fitted /\ ret.op = "prepare_input") =>
        /\ ret.status = "ok"
        /\ ret.frame.cols = proc.feature_names.v
        /\ Len(ret.frame.rows) = 1
        /\ DOMAIN ret.frame.rows[1] = Range(proc.feature_names.v)
        /\ \A c \in Range(proc.feature_names.v) :
             ret.frame.rows[1][c] =
                 IF Has(arg.frame, c) THEN arg.frame.rows[1][c] ELSE NaN

\* C10, the case: prepare_input was given a mapping that lacks an original
\* column, has another and has a key that is no original column.
C10_PreparedPartialMapping ==
    /\ proc.is_fitted
    /\ ret.op = "prepare_input"
    /\ ret.status = "ok"
    /\ Range(proc.feature_names.v) \ Range(arg.frame.cols) # {}
    /\ Range(proc.feature_names.v) \cap Range(arg.frame.cols) # {}
    /\ Range(arg.frame.cols) \ Range(proc.feature_names.v) # {}

\* C11: save followed by load round-trips the full state: a save of any
\* processor instance writes a file from which load builds a processor equal
\* to the saved one in scaler_type, imputer_type, feature_engineering,
\* is_fitted, feature_names, fitted_feature_names, target_names, imputer and
\* scaler.
C11_SaveLoadRoundTrip ==
    [][Save =>
         LET r == load(NoProcessor, disk')
         IN  /\ ret'.status = "ok"
             /\ r.ret.status = "ok"
             /\ r.proc = proc]_vars

\* C11, the case: save was called on an instance that was never fitted, and
\* left a file that load cannot read.
C11_SavedNeverFitted ==
    /\ ret.op = "save"
    /\ ret.status = "AttributeError"
    /\ ~proc.is_fitted
    /\ disk.state = "empty"
    /\ load(NoProcessor, disk).ret.status = "EOFError"

\* C12: save_model followed by load_model gives a network with the saved
\* one's input_size, hidden_size, output_size, dropout and num_hidden_layers
\* and with its parameters and buffers, whatever weights the constructor drew,
\* and its predict_proba equals the saved network's on every input batch.
C12_ModelRoundTrip ==
    [][/\ SaveModel =>
            \A seed \in Seeds :
                LET r == load_model(checkpoint', seed)
                IN  /\ r.status = "ok"
                    /\ r.model.config = net.config
                    /\ r.model.state = net.state
                    /\ \A x \in InputBatches :
                          predict_proba(r.model, x).ret = predict_proba(net, x).ret
       /\ \A seed \in Seeds :
            (LoadModel(seed) /\ checkpoint.state = "ok") =>
                /\ mret'.status = "ok"
                /\ net'.config = checkpoint.model_config
                /\ net'.state = checkpoint.model_state_dict
                /\ ~net'.training]_vars

\* C12, the case: a trained network was saved and loaded, and the loaded
\* network holds the trained tensors, which no constructor draw gives.
C12_LoadedTrainedModel ==
    /\ mret.op = "load_model"
    /\ mret.status = "ok"
    /\ net.exists
    /\ ~net.training
    /\ net.config = checkpoint.model_config
    /\ net.state = checkpoint.model_state_dict
    /\ net.state = TrainedState(net.config, 2)
    /\ \A seed \in Seeds : net.state # HealthRiskPredictor(net.config, seed).state

\* C13 as stated: for every batch of shape (n, input_size) predict_proba
\* returns an (n, output_size) tensor with every element in [0, 1], and
\* predict returns an (n, output_size) tensor whose element is 1 exactly when
\* the probability is >= threshold.
C13_ProbaInUnitInterval ==
    /\ (mret.op \in {"predict_proba", "predict"} /\ mret.x.shape[2] = net.config.input_size)
          => mret.status = "ok"
    /\ (mret.op \in {"predict_proba", "predict"} /\ mret.status = "ok") =>
          /\ Len(mret.proba) = mret.x.shape[1]
          /\ \A i \in 1..Len(mret.proba) :
                /\ Len(mret.proba[i]) = net.config.output_size
                /\ i \notin mret.nan
                /\ \A k \in 1..Len(mret.proba[i]) :
                      mret.proba[i][k] >= 0 /\ mret.proba[i][k] <= ProbScale
    /\ (mret.op = "predict" /\ mret.status = "ok") =>
          /\ Len(mret.out) = mret.x.shape[1]
          /\ \A i \in 1..Len(mret.out) :
                /\ Len(mret.out[i]) = net.config.output_size
                /\ \A k \in 1..Len(mret.out[i]) :
                      mret.out[i][k] = IF mret.proba[i][k] >= mret.threshold THEN 1 ELSE 0

\* C13, amended: the elements lie in [0, 1] for every row of finite entries,
\* a row with a NaN entry gives NaN probabilities, and predict gives 1
\* exactly when the probability is >= threshold, 0 for a NaN probability.
C13_FiniteProbaInUnitInterval ==
    /\ (mret.op \in {"predict_proba", "predict"} /\ mret.x.shape[2] = net.config.input_size)
          => mret.status = "ok"
    /\ (mret.op \in {"predict_proba", "predict"} /\ mret.status = "ok") =>
          /\ Len(mret.proba) = mret.x.shape[1]
          /\ mret.nan = mret.x.nan
          /\ \A i \in 1..Len(mret.proba) :
                /\ Len(mret.proba[i]) = net.config.output_size
                /\ i \notin mret.nan =>
                      \A k \in 1..Len(mret.proba[i]) :
                          mret.proba[i][k] >= 0 /\ mret.proba[i][k] <= ProbScale
    /\ (mret.op = "predict" /\ mret.status = "ok") =>
          /\ Len(mret.out) = mret.x.shape[1]
          /\ \A i \in 1..Len(mret.out) :
                /\ Len(mret.out[i]) = net.config.output_size
                /\ \A k \in 1..Len(mret.out[i]) :
                      mret.out[i][k] =
                          IF i \notin mret.nan /\ mret.proba[i][k] >= mret.threshold
                          THEN 1 ELSE 0

\* C13, the case: predict was called with the default threshold on a batch
\* of finite entries and gave a 1 for a probability equal to the threshold,
\* a 1 for a larger one and a 0.
C13_PredictedAtThreshold ==
    /\ mret.op = "predict"
    /\ mret.status = "ok"
    /\ mret.x.nan = {}
    /\ mret.threshold = (5 * ProbScale) \div 10
    /\ \E i \in 1..Len(mret.out) :
          /\ \E k \in 1..Len(mret.out[i]) :
                mret.proba[i][k] = mret.threshold /\ mret.out[i][k] = 1
          /\ \E k \in 1..Len(mret.out[i]) :
                mret.proba[i][k] > mret.threshold /\ mret.out[i][k] = 1
          /\ \E k \in 1..Len(mret.out[i]) : mret.out[i][k] = 0

\* C14: building a result never fails, and every successful /predict or
\* /predict/batch result carries four risk scores, overall_risk equal to
\* their mean and the risk_level derived from overall_risk.
C14_ResultsCarryDerivedRiskLevel ==
    LET Carries(risks) ==
            /\ DOMAIN risks = Range(RiskFields)
            /\ risks.overall_risk =
                   (risks.asthma_risk + risks.heatstroke_risk
                    + risks.cardiovascular_risk + risks.respiratory_risk) \div 4
            /\ risks.risk_level = compute_risk_level(risks.overall_risk)
    IN  /\ resp.exception # "ValidationError"
        /\ (resp.endpoint = "/predict" /\ resp.status = 200) => Carries(resp.body.v.risks)
        /\ (resp.endpoint = "/predict/batch" /\ resp.status = 200) =>
              \A i \in 1..Len(resp.body.v.predictions) :
                  Carries(resp.body.v.predictions[i].risks)

\* C14, the case: the processor and the model have run for a valid /predict
\* request, and the request failed when HealthRiskOutput was built.
C14_RiskOutputRejected ==
    /\ resp.endpoint = "/predict"
    /\ resp.status = 500
    /\ resp.exception = "ValidationError"
    /\ "model" \in resp.touched

\* C15: a /predict/batch request with more than MAX_BATCH_SIZE entries is
\* answered 422 with nothing called and nothing written, in every state of
\* the service; a batch of n <= MAX_BATCH_SIZE valid entries, with a model
\* and a processor loaded that were trained together, is answered with n
\* predictions, total_count n, the i-th with the i-th entry's user_id and
\* location_id.
C15_BatchCeilingAndOrder ==
    [][\A batch_input \in Batches :
         PredictBatch(batch_input) =>
           /\ batch_input.count > MAX_BATCH_SIZE =>
                 /\ resp'.status = 422
                 /\ resp'.touched = {}
                 /\ svc' = svc
                 /\ cache' = cache
           /\ (/\ batch_input.count <= MAX_BATCH_SIZE
               /\ \A i \in 1..Len(batch_input.predictions) :
                     Validates(batch_input.predictions[i])
               /\ svc.model.some
               /\ svc.processor.some
               /\ svc.processor.v.is_fitted
               /\ svc.model.v.config.input_size = Len(svc.processor.v.imputer.valid)) =>
                 /\ resp'.status = 200
                 /\ resp'.body.v.total_count = batch_input.count
                 /\ Len(resp'.body.v.predictions) = batch_input.count
                 /\ \A i \in 1..batch_input.count :
                       /\ resp'.body.v.predictions[i].user_id =
                              batch_input.predictions[i].user_id
                       /\ resp'.body.v.predictions[i].location_id =
                              batch_input.predictions[i].location_id]_vars

\* C15, the case: the processor and the model have run for a batch of valid
\* entries, and the request failed when the results were built.
C15_BatchResultRejected ==
    /\ resp.endpoint = "/predict/batch"
    /\ resp.status = 500
    /\ resp.exception = "ValidationError"
    /\ resp.touched = {"processor", "model"}

\* C16: a /predict request with a field outside its declared range is
\* answered 422 in every state of the running service (loaded or not, with
\* or without Redis) and neither the cache, the processor nor the model is
\* called or written.
C16_InvalidRejectedFirst ==
    [][LET Groups(pi) ==
               {pi.environmental, pi.health}
               \cup (IF pi.genomic.some THEN {pi.genomic.v} ELSE {})
           OutOfRange(pi) ==
               \E group \in Groups(pi) :
                   \E c \in DOMAIN group :
                       \/ group[c].v < FieldRange(c)[1] * FP
                       \/ group[c].v > FieldRange(c)[2] * FP
       IN  \A pi \in Requests :
               \A get_ok \in BOOLEAN, set_ok \in BOOLEAN :
                   (OutOfRange(pi) /\ Predict(pi, get_ok, set_ok)) =>
                       /\ resp'.status = 422
                       /\ resp'.touched = {}
                       /\ svc' = svc
                       /\ cache' = cache]_vars

\* C16, the case: a /predict request was answered 422 while the service ran
\* without a model.
C16_Answered422NotLoaded ==
    /\ svc.started
    /\ ~svc.model.some
    /\ resp.endpoint = "/predict"
    /\ resp.status = 422

\* C17: a valid /predict request on a loaded service for which Redis was not
\* connected at start-up, or the cache get raises, or the cache set after a
\* miss raises, runs the processor and is answered as the same request is by
\* the service without a cache, and the globals are left alone.
C17_CacheFaultsInvisible ==
    [][\A pi \in Requests :
         (Validates(pi) /\ ~NotLoaded(svc) /\ resp'.endpoint = "/predict") =>
             \A plain \in {predict([svc EXCEPT !.redis_client = FALSE], EmptyDict, pi,
                                    TRUE, TRUE).resp} :
                 \A get_ok \in BOOLEAN, set_ok \in BOOLEAN :
                     (/\ \/ ~svc.redis_client
                         \/ ~get_ok
                         \/ /\ ~set_ok
                            /\ generate_cache_key(prepare_input_data(pi)) \notin DOMAIN cache
                      /\ Predict(pi, get_ok, set_ok)) =>
                         /\ resp'.status = plain.status
                         /\ resp'.detail = plain.detail
                         /\ resp'.exception = plain.exception
                         /\ resp'.body = plain.body
                         /\ "processor" \in resp'.touched
                         /\ svc' = svc]_vars

\* C17, the case: with Redis connected the cache get raised, the error was
\* logged, and the processor and the model ran for the request.
C17_ComputedAfterCacheError ==
    /\ svc.redis_client
    /\ resp.endpoint = "/predict"
    /\ "Error reading from cache" \in resp.logged
    /\ {"processor", "model"} \subseteq resp.touched

\* C18: for a valid /predict request on a service with Redis connected and a
\* model and a processor loaded that were trained together: on a hit the
\* cached result is returned and neither the processor nor the model is
\* called; on a miss the processor and the model are called, the result is
\* returned and the cache holds it under the key of the feature mapping.
C18_CacheHitOrStore ==
    [][\A pi \in Requests :
         (/\ Validates(pi)
          /\ svc.redis_client
          /\ svc.model.some
          /\ svc.processor.some
          /\ svc.processor.v.is_fitted
          /\ svc.model.v.config.input_size = Len(svc.processor.v.imputer.valid)
          /\ Predict(pi, TRUE, TRUE)) =>
             LET cache_key == generate_cache_key(prepare_input_data(pi))
             IN  IF cache_key \in DOMAIN cache
                 THEN /\ resp'.status = 200
                      /\ resp'.body = Some(cache[cache_key])
                      /\ resp'.touched = {"cache"}
                      /\ cache' = cache
                 ELSE /\ resp'.status = 200
                      /\ resp'.touched = {"cache", "processor", "model"}
                      /\ cache_key \in DOMAIN cache'
                      /\ resp'.body = Some(cache'[cache_key])]_vars

\* C18, the case: with Redis connected and answering, a /predict request
\* missed the cache, the processor and the model ran, and the request failed
\* with nothing stored.
C18_MissStoredNothing ==
    /\ svc.redis_client
    /\ resp.endpoint = "/predict"
    /\ resp.status = 500
    /\ resp.touched = {"cache", "processor", "model"}
    /\ "Error reading from cache" \notin resp.logged
    /\ cache = EmptyDict

\* C19: a response with status 500 holds no text of the exception that was
\* raised inside the handler.
C19_OpaqueInternalError ==
    resp.status = 500 => resp.exception = ""

\* C19, the case: the processor raised inside a handler, the error was
\* logged and the response is a 500.
C19_ProcessorRaised ==
    /\ resp.status = 500
    /\ resp.exception = "ValueError"
    /\ resp.touched \cap {"processor", "model"} = {"processor"}
    /\ resp.logged \cap {"Error during prediction", "Error during batch prediction"} # {}

\* C20: within each epoch of train_model the steps follow in the order
\* training pass (which writes the weights), validation pass, scheduler.step
\* on the validation loss, history append, early-stopping check; the
\* validation pass writes no tensor, so at the early-stopping check the
\* tensors the snapshot refers to hold what this epoch's training pass wrote,
\* the scheduler has taken this epoch's validation loss and the last history
\* entry is this epoch's.
C20_EpochOrder ==
    [][/\ tpc = "train_epoch" =>
            /\ tpc' = "validate_epoch"
            /\ \A i \in TensorIds : tensors'[i] = epoch + 1
       /\ tpc = "validate_epoch" =>
            /\ tpc' = "scheduler_step"
            /\ tensors' = tensors
            /\ UNCHANGED <<scheduler, history, early_stopping>>
       /\ tpc = "scheduler_step" =>
            /\ tpc' = "history_append"
            /\ scheduler' = SchedulerStepOp(scheduler, val_loss)
            /\ UNCHANGED <<tensors, val_loss, history, early_stopping>>
       /\ tpc = "history_append" =>
            /\ tpc' = "early_stopping"
            /\ Len(history') = Len(history) + 1
            /\ history'[Len(history')].epoch = epoch + 1
            /\ history'[Len(history')].val_loss = val_loss
            /\ UNCHANGED <<tensors, val_loss, scheduler, early_stopping>>
       /\ tpc = "early_stopping" =>
            /\ tpc' \in {"train_epoch", "load_best_model"}
            /\ Len(history) = epoch + 1
            /\ UNCHANGED <<tensors, scheduler, history>>
            /\ (~early_stopping.best_score.some \/ is_improvement(early_stopping, val_loss)) =>
                  /\ early_stopping'.best_model_state.some
                  /\ \A n \in ParamNames :
                        tensors[early_stopping'.best_model_state.v[n]] = epoch + 1]_vars

\* C20, the case: the second epoch improved on the first, so its
\* early-stopping check took a snapshot while the tensors held what the
\* second training pass wrote, after two history entries were appended.
C20_SnapshotOfSecondEpoch ==
    /\ tpc \in {"train_epoch", "load_best_model"}
    /\ Len(history) = 2
    /\ history[2].val_loss < history[1].val_loss
    /\ early_stopping.best_score = Some(history[2].val_loss)
    /\ \A n \in ParamNames : tensors[early_stopping.best_model_state.v[n]] = 2

\* C21 as stated: the number of epochs without improvement after which the
\* scheduler halves the learning rate is the caller's: train_model's
\* arguments are num_epochs, learning_rate and patience, and the scheduler
\* halves when the loss has failed to improve for more than `patience` steps.
C21_CallerSetsPlateau ==
    [][tpc = "scheduler_step" =>
         (scheduler'.halvings # scheduler.halvings <=>
            /\ scheduler.best.some
            /\ val_loss >= scheduler.best.v
            /\ scheduler.num_bad_epochs + 1 > early_stopping.patience)]_vars

\* C21, amended: the learning rate changes only in scheduler.step and only by
\* one halving; the first halving happens at the step at which the last
\* SchedulerPatience + 1 validation losses have each failed to go below the
\* best loss before them, whatever the caller's patience; scheduler.step
\* leaves the EarlyStopping instance as it is and the early-stopping check
\* leaves the scheduler as it is.
C21_PlateauHalving ==
    [][/\ tpc = "scheduler_step" =>
            LET n == Len(history) + 1
                loss(k) == IF k < n THEN history[k].val_loss ELSE val_loss
                plateau == /\ n > SchedulerPatience + 1
                           /\ \A k \in (n - SchedulerPatience)..n :
                                 \E j \in 1..(n - SchedulerPatience - 1) :
                                     loss(k) >= loss(j)
            IN  /\ scheduler'.halvings \in {scheduler.halvings, scheduler.halvings + 1}
                /\ scheduler.halvings = 0 => (scheduler'.halvings = 1 <=> plateau)
                /\ early_stopping' = early_stopping
       /\ tpc \in {"train_epoch", "validate_epoch", "history_append",
                    "early_stopping", "load_best_model"} =>
            scheduler' = scheduler
       /\ tpc = "early_stopping" =>
            early_stopping' = EarlyStoppingCall(early_stopping, val_loss)]_vars

\* C21, the case: the scheduler has halved the learning rate in a run whose
\* early-stopping counter stands at another value than the scheduler's.
C21_HalvedOnPlateau ==
    /\ scheduler.halvings = 1
    /\ scheduler.num_bad_epochs = 0
    /\ early_stopping.counter = SchedulerPatience + 1
    /\ Len(history) = SchedulerPatience + 2

\* C22: cross_validate with n_folds = k returns k fold results numbered
\* 1..k in order, and every fold starts its training on a newly constructed
\* model with a new scheduler and a new EarlyStopping instance: no weight,
\* best score, counter, snapshot or history entry of an earlier fold is
\* there when a fold's first epoch begins.
C22_FoldsIndependent ==
    /\ cv.pc \in {"folds", "returned"} =>
          /\ Len(cv.fold_results) = cv.fold
          /\ \A i \in 1..cv.fold : cv.fold_results[i].fold = i
          /\ cv.pc = "returned" <=> cv.fold = cv.n_folds
    /\ (cv.pc = "folds" /\ tpc = "train_epoch" /\ epoch = 0) =>
          /\ \A i \in TensorIds : tensors[i] = 0
          /\ early_stopping = EarlyStoppingInit(EARLY_STOPPING_PATIENCE, 0, "min")
          /\ scheduler = SchedulerInit
          /\ history = <<>>

\* C22, the case: cross_validate has returned three fold results; the first
\* fold stopped early with a snapshot taken and the second ran every epoch.
C22_ThreeFoldsReturned ==
    /\ cv.pc = "returned"
    /\ cv.n_folds = 3
    /\ Len(cv.fold_results[1].history) < NUM_EPOCHS
    /\ Len(cv.fold_results[2].history) = NUM_EPOCHS

\* C23: every valid /predict request to a service holding a model and a
\* processor that were trained together is answered by a response that
\* carries the user_id and the location_id of that request, whether computed
\* or served from the cache.
C23_ResponseCarriesRequestIds ==
    [][\A pi \in Requests, get_ok \in BOOLEAN, set_ok \in BOOLEAN :
         (/\ Validates(pi)
          /\ svc.model.some
          /\ svc.processor.some
          /\ svc.processor.v.is_fitted
          /\ svc.model.v.config.input_size = Len(svc.processor.v.imputer.valid)
          /\ Predict(pi, get_ok, set_ok)) =>
             /\ resp'.body.some
             /\ resp'.body.v.user_id = pi.user_id
             /\ resp'.body.v.location_id = pi.location_id]_vars

\* C23, the case: a /predict request went through the cache lookup, the
\* processor and the model, and its answer carries no result at all, so
\* neither a user_id nor a location_id.
C23_AnsweredWithoutIds ==
    /\ resp.endpoint = "/predict"
    /\ resp.touched = {"cache", "processor", "model"}
    /\ resp.exception = "ValidationError"
    /\ resp.logged = {"Error during prediction"}
    /\ ~resp.body.some

\* C24: whenever the serving layer has loaded a processor and a model
\* together from the artifacts on disk, the two were written by the same
\* run of the training main: the model's input_size is the width of the
\* matrix the loaded processor produces.
C24_ArtifactsFromOneRun ==
    (svc.started /\ svc.model.some /\ svc.processor.some /\ svc.processor.v.is_fitted) =>
        /\ svc.model.v.config.input_size = Len(svc.processor.v.imputer.valid)
        /\ \E X \in TrainingTables :
              /\ svc.processor.v = TrainedProcessor(X).proc
              /\ svc.model.v.config.input_size = TrainedProcessor(X).ret.width

\* C24, the case: a run of main saved its processor over the one of an
\* earlier run and ended before model.save_model; the service then loaded
\* the new processor with the earlier run's model, which is narrower or
\* wider than the processor's output.
C24_LoadedAcrossRuns ==
    /\ svc.started
    /\ svc.model.some
    /\ svc.processor.some
    /\ svc.processor.v.is_fitted
    /\ files.processor = Pickle(svc.processor.v)
    /\ svc.model.v.config.input_size # Len(svc.processor.v.imputer.valid)

C26_FittedStateFromOneFit ==
    proc.is_fitted =>
        /\ proc.imputer.fitted
        /\ proc.scaler.fitted
        /\ proc.imputer.cols = proc.fitted_feature_names.v
        /\ proc.scaler.n = Len(proc.imputer.valid)
        /\ SubSeq(proc.fitted_feature_names.v, 1, Len(proc.feature_names.v))
               = proc.feature_names.v

\* C26, the case: fit raised in the imputer on a processor that was fitted
\* before; the column lists are those of the failed call and the imputer is
\* the one of the earlier call.
C26_RefitRaisedPartway ==
    /\ proc.is_fitted
    /\ ret.op = "fit"
    /\ ret.status = "ValueError"
    /\ proc.fitted_feature_names.v = engineer_features(arg.frame).cols
    /\ proc.imputer.cols # proc.fitted_feature_names.v

\* C27: for a fitted processor with feature engineering on, the frame that
\* prepare_input returns for any field mapping has, after feature
\* engineering, every column of fitted_feature_names: transform adds no
\* zero-filled column, the frame handed to the imputer is the engineered
\* frame in fitted order, and a field absent from the mapping is a missing
\* value in it.
C27_NoZeroFillOnServingPath ==
    (/\ proc.is_fitted
     /\ proc.feature_engineering
     /\ ret.op = "prepare_input"
     /\ ret.status = "ok") =>
        LET X1 == engineer_features(ret.frame)
            X3 == ReconciledFrame(proc, ret.frame)
        IN  /\ Range(proc.fitted_feature_names.v) \subseteq Range(X1.cols)
            /\ X3 = Select(X1, proc.fitted_feature_names.v)
            /\ \A c \in Range(proc.feature_names.v) \ Range(arg.frame.cols) :
                  X3.rows[1][c] = NaN

\* C27, the case: prepare_input was given a mapping that lacks original
\* columns, on a fitted processor whose fit derived columns.
C27_PreparedForEngineering ==
    /\ proc.is_fitted
    /\ proc.feature_engineering
    /\ ret.op = "prepare_input"
    /\ ret.status = "ok"
    /\ Range(proc.feature_names.v) \ Range(arg.frame.cols) # {}
    /\ Len(proc.fitted_feature_names.v) > Len(proc.feature_names.v)

C29_EarlyStoppingAnyDelta ==
    [][\A score \in 0..MaxLoss :
         (/\ early_stopping.mode = "min"
          /\ early_stopping.patience >= 1
          /\ early_stopping'.best_score.some
          /\ CallEarlyStopping(score)) =>
             LET es == early_stopping
                 improves == es.best_score.some /\ score < es.best_score.v - es.min_delta
             IN  /\ ~es'.early_stop => (0 <= es'.counter /\ es'.counter < es.patience)
                 /\ improves => es'.counter = 0
                 /\ (es.best_score.some /\ ~improves) => es'.counter = es.counter + 1
                 /\ (es.best_score.some /\ score = es.best_score.v) => es'.counter = es.counter + 1
                 /\ es.best_score.some => es'.best_score.v <= es.best_score.v
                 /\ es.early_stop => es'.early_stop
                 /\ es'.patience = es.patience]_vars

\* C29: for an EarlyStopping instance in 'min' mode with patience >= 1 and
\* min_delta >= 0, and any sequence of calls: while early_stop is false the
\* counter is in 0..patience - 1; a call with a score below best_score - min_delta sets the
\* counter to 0 and every other call after the first adds one to it (an
\* equal score is no improvement); best_score never goes up; and a call on an
\* instance whose early_stop is true returns true whatever the score.
C29_EarlyStoppingCounter ==
    [][\A score \in 0..MaxLoss :
         (/\ early_stopping.mode = "min"
          /\ early_stopping.patience >= 1
          /\ early_stopping.min_delta >= 0
          /\ early_stopping'.best_score.some
          /\ CallEarlyStopping(score)) =>
             LET es == early_stopping
                 improves == es.best_score.some /\ score < es.best_score.v - es.min_delta
             IN  /\ ~es'.early_stop => (0 <= es'.counter /\ es'.counter < es.patience)
                 /\ improves => es'.counter = 0
                 /\ (es.best_score.some /\ ~improves) => es'.counter = es.counter + 1
                 /\ (es.best_score.some /\ score = es.best_score.v) => es'.counter = es.counter + 1
                 /\ es.best_score.some => es'.best_score.v <= es.best_score.v
                 /\ es.early_stop => es'.early_stop
                 /\ es'.patience = es.patience]_vars

\* C29, the case: an instance in 'min' mode that had returned true was
\* called again with a score that improved on its best, and returned true.
C29_ImprovedAfterStop ==
    /\ early_stopping.mode = "min"
    /\ early_stopping.patience >= 1
    /\ early_stopping.min_delta >= 0
    /\ early_stopping.early_stop
    /\ early_stopping.counter = 0
    /\ early_stopping.best_score.some
    /\ tpc = "idle"
    /\ history = <<>>

====
